---- MODULE Spec2Model ----
(***************************************************************************)
(* A model of the a4s signing library: the S3 chunked-upload signature     *)
(* chain (dist/s3_chunked.js), the header-mode request signing it is       *)
(* seeded from (dist/http.js, s3.js, core.js) and the Transform stage that *)
(* drives the chain (createS3PayloadSigner).                               *)
(*                                                                         *)
(* Cryptographic primitives are symbolic terms: SHA-256 and HMAC-SHA256    *)
(* are free constructors (hence injective), a hex encoding is a tagged     *)
(* term that only the matching decoder opens.                              *)
(***************************************************************************)
EXTENDS Integers, Sequences, FiniteSets, TLC

VARIABLES
    args,        \* per chain: the arguments signS3ChunkedRequest is called with
    request,     \* per chain: the caller's request object (mutable)
    phase,       \* per chain: "new", "ready" (signer returned) or "threw"
    thrown,      \* per chain: message of the error the creation threw, or ""
    signCount,   \* per chain: number of signatures computed so far (signString calls)
    parameters,  \* per chain: the parameters object returned to the caller
    signer,      \* per chain: the variables captured by the chunkSigner closure
    last,        \* per chain: the latest chunkSigner call and its outcome
    accepted,    \* per chain: history of the calls that returned a frame
    stream,      \* the Transform stage of createS3PayloadSigner (drives chain "A")
    cache,       \* the key and value a function of makeSimpleCache closes over
    input,       \* the arguments of a library function called on its own
    output       \* what that call returned or threw, and the objects it wrote to

vars == <<args, request, phase, thrown, signCount, parameters, signer, last,
          accepted, stream, cache, input, output>>

\* the variables of the calls of single library functions
direct == <<cache, input, output>>

Chains == {"A", "B"}

(***************************************************************************)
(* Bounds of the model.                                                    *)
(***************************************************************************)
MaxChunks == 2      \* full chunks in a body
MaxCalls == 5       \* chunkSigner calls per chain (accepted or rejected)

(***************************************************************************)
(* JavaScript numbers. A number is an integer, an integer plus one half    *)
(* (standing for the non-integers), +Infinity, -Infinity or NaN.           *)
(***************************************************************************)
Num(n) == [k |-> "int", v |-> n]
Half(n) == [k |-> "frac", v |-> n]
Infinity == [k |-> "inf", v |-> 0]
NegInfinity == [k |-> "ninf", v |-> 0]
NaN == [k |-> "nan", v |-> 0]

IsFinite(a) == a.k \in {"int", "frac"}
IsInt(a) == a.k = "int"
Twice(a) == IF a.k = "frac" THEN 2 * a.v + 1 ELSE 2 * a.v

\* Math.floor(a)
MathFloor(a) == IF a.k = "frac" THEN Num(a.v) ELSE a

\* a === b  (NaN is equal to nothing)
JsSame(a, b) == a.k # "nan" /\ b.k # "nan" /\ a = b

\* a < b  (false when either side is NaN)
JsLt(a, b) ==
    CASE a.k = "nan" \/ b.k = "nan" -> FALSE
      [] a.k = "ninf" -> b.k # "ninf"
      [] a.k = "inf" -> FALSE
      [] b.k = "inf" -> TRUE
      [] b.k = "ninf" -> FALSE
      [] OTHER -> Twice(a) < Twice(b)

\* -a
JsNeg(a) ==
    CASE a.k = "inf" -> NegInfinity
      [] a.k = "ninf" -> Infinity
      [] a.k = "nan" -> NaN
      [] a.k = "int" -> Num(0 - a.v)
      [] OTHER -> Half(0 - a.v - 1)

\* a + b, for integers and the special values
JsAdd(a, b) ==
    CASE a.k = "nan" \/ b.k = "nan" -> NaN
      [] a.k = "inf" -> IF b.k = "ninf" THEN NaN ELSE Infinity
      [] a.k = "ninf" -> IF b.k = "inf" THEN NaN ELSE NegInfinity
      [] b.k \in {"inf", "ninf"} -> b
      [] OTHER -> Num(a.v + b.v)

\* a - b
JsSub(a, b) == JsAdd(a, JsNeg(b))

\* a * b, for integers and the special values
JsMul(a, b) ==
    CASE a.k = "nan" \/ b.k = "nan" -> NaN
      [] a.k \in {"inf", "ninf"} /\ b.k \in {"inf", "ninf"} ->
            IF a.k = b.k THEN Infinity ELSE NegInfinity
      [] a.k \in {"inf", "ninf"} ->
            IF b.v = 0 THEN NaN ELSE IF b.v > 0 THEN a ELSE JsNeg(a)
      [] b.k \in {"inf", "ninf"} ->
            IF a.v = 0 THEN NaN ELSE IF a.v > 0 THEN b ELSE JsNeg(b)
      [] OTHER -> Num(a.v * b.v)

\* Math.floor(a / b), for a >= 0 and b > 0 (integers or +Infinity)
JsFloorDiv(a, b) ==
    CASE a.k = "nan" \/ b.k = "nan" -> NaN
      [] a.k = "inf" /\ b.k = "inf" -> NaN
      [] a.k = "inf" -> Infinity
      [] b.k = "inf" -> Num(0)
      [] OTHER -> Num(a.v \div b.v)

\* the truth value of a number: 0 and NaN are falsy
Truthy(a) == ~(a.k = "nan" \/ (a.k = "int" /\ a.v = 0))

HexDigits == <<"0", "1", "2", "3", "4", "5", "6", "7",
               "8", "9", "a", "b", "c", "d", "e", "f">>

RECURSIVE Hex(_)
Hex(n) == IF n < 16 THEN HexDigits[n + 1]
          ELSE Hex(n \div 16) \o HexDigits[(n % 16) + 1]

\* a.toString(16), for a >= 0
ToString16(a) ==
    CASE a.k = "inf" -> "Infinity"
      [] a.k = "nan" -> "NaN"
      [] OTHER -> Hex(a.v)

(***************************************************************************)
(* Text. A string is a sequence of tokens; a token is a word, one of the   *)
(* separator characters the code looks for (" ", ",", "=", "/") or an      *)
(* opaque term (a hex-encoded digest or signature).                        *)
(***************************************************************************)
Str(s) == [s |-> s, x |-> <<>>]
Term(t) == [s |-> "#", x |-> t]
Text(s) == <<Str(s)>>
SP == Str(" ")
COMMA == Str(",")
EQ == Str("=")
SLASH == Str("/")
TAB == Str("\t")
IsSpace(tok) == tok.s \in {" ", "\t"}

RECURSIVE Dec(_)
Dec(n) == IF n < 10 THEN HexDigits[n + 1]
          ELSE Dec(n \div 10) \o HexDigits[(n % 10) + 1]

\* a + '' for a number a >= 0
NumToText(a) ==
    CASE a.k = "inf" -> Text("Infinity")
      [] a.k = "nan" -> Text("NaN")
      [] OTHER -> Text(Dec(a.v))

\* The mixed-case spellings the model uses; every other name is lowercase.
UpperNames ==
    [n \in {"Host", "X-Amz-Date", "Content-Encoding", "Content-Length",
            "Authorization", "X-Amz-Decoded-Content-Length", "AWS-Chunked"} |->
        CASE n = "Host" -> "host"
          [] n = "X-Amz-Date" -> "x-amz-date"
          [] n = "Content-Encoding" -> "content-encoding"
          [] n = "Content-Length" -> "content-length"
          [] n = "Authorization" -> "authorization"
          [] n = "X-Amz-Decoded-Content-Length" -> "x-amz-decoded-content-length"
          [] OTHER -> "aws-chunked"]

\* String.prototype.toLowerCase, on one word
toLowerCase(w) == IF w \in DOMAIN UpperNames THEN UpperNames[w] ELSE w

\* String.prototype.trimLeft / trim
RECURSIVE trimLeft(_)
trimLeft(t) == IF t # <<>> /\ IsSpace(Head(t)) THEN trimLeft(Tail(t)) ELSE t

RECURSIVE trimRight(_)
trimRight(t) == IF t # <<>> /\ IsSpace(t[Len(t)])
                THEN trimRight(SubSeq(t, 1, Len(t) - 1)) ELSE t

trim(t) == trimRight(trimLeft(t))

\* x.replace(/\s+/g, ' ')
RECURSIVE collapse(_)
collapse(t) ==
    IF t = <<>> THEN <<>>
    ELSE IF IsSpace(Head(t))
         THEN <<SP>> \o collapse(trimLeft(t))
         ELSE <<Head(t)>> \o collapse(Tail(t))

\* x.indexOf(token): position of the first occurrence, 0 when there is none
indexOf(t, tok) ==
    IF \A i \in 1..Len(t) : t[i] # tok THEN 0
    ELSE CHOOSE i \in 1..Len(t) : t[i] = tok /\ \A j \in 1..(i - 1) : t[j] # tok

\* x.split(sep)
RECURSIVE split(_, _)
split(t, sep) ==
    LET i == indexOf(t, sep) IN
    IF i = 0 THEN <<t>>
    ELSE <<SubSeq(t, 1, i - 1)>> \o split(SubSeq(t, i + 1, Len(t)), sep)

(***************************************************************************)
(* Characters. A string whose characters matter (a path segment, a query   *)
(* key or value) is a text of one-character tokens; a token of several     *)
(* characters is a word of unreserved characters (letters, digits, '-',    *)
(* '_', '.'), and a term is a string known only by how it was made.        *)
(***************************************************************************)
\* The characters U+0020 .. U+007E in order: Printable[i] is the code unit 31 + i
\* (U+0060 is written "grave").
Printable ==
  <<" ", "!", "\"", "#", "$", "%", "&", "'", "(", ")", "*", "+",
     ",", "-", ".", "/", "0", "1", "2", "3", "4", "5", "6", "7",
     "8", "9", ":", ";", "<", "=", ">", "?", "@", "A", "B", "C",
     "D", "E", "F", "G", "H", "I", "J", "K", "L", "M", "N", "O",
     "P", "Q", "R", "S", "T", "U", "V", "W", "X", "Y", "Z", "[",
     "\\", "]", "^", "_", "grave", "a", "b", "c", "d", "e", "f", "g",
     "h", "i", "j", "k", "l", "m", "n", "o", "p", "q", "r", "s",
     "t", "u", "v", "w", "x", "y", "z", "{", "|", "}", "~">>

EAcute == "é"   \* U+00E9, in UTF-8 the bytes C3 A9

\* the characters of a string of the model
Chars(w) == [i \in 1..Len(w) |-> Str(SubSeq(w, i, i))]

\* a token that is a term
IsTerm(tok) == tok.s = "#" /\ tok.x # <<>>

\* a token that is one character
IsChar(tok) == ~IsTerm(tok) /\ (Len(tok.s) = 1 \/ tok.s = "grave")

\* the same string with every word spelled out character by character
RECURSIVE Flat(_)
Flat(t) ==
    IF t = <<>> THEN <<>>
    ELSE (IF IsTerm(Head(t)) \/ IsChar(Head(t)) THEN <<Head(t)>> ELSE Chars(Head(t).s))
         \o Flat(Tail(t))

\* a === b for two strings
SameStr(a, b) == Flat(a) = Flat(b)

\* the code unit of every character of Printable
CharCodes ==
    [c \in {Printable[i] : i \in 1..Len(Printable)} |->
        31 + (CHOOSE i \in 1..Len(Printable) : Printable[i] = c)]

\* the UTF-16 code unit of a one-character token, 0 for a term
CodeUnit(tok) ==
    IF tok.s = EAcute THEN 233
    ELSE IF IsChar(tok) THEN CharCodes[tok.s]
    ELSE 0

\* the character of a code unit of U+0020 .. U+007E
CharOf(u) == Str(Printable[u - 31])

UpperHexDigits == <<"0", "1", "2", "3", "4", "5", "6", "7",
                    "8", "9", "A", "B", "C", "D", "E", "F">>

\* at(0x61, x | 0x20, 0x7A) || at(0x30, x, 0x39) || x === 0x2D || x === 0x2E
\* || x === 0x5F || x === 0x7E
Unreserved(x) ==
    \/ x \in 65..90 \/ x \in 97..122
    \/ x \in 48..57
    \/ x \in {45, 46, 95, 126}

\* `%${digits[x >> 4]}${digits[x & 0xF]}`
PercentOf(x) == <<Str("%"), Str(UpperHexDigits[(x \div 16) + 1]),
                  Str(UpperHexDigits[(x % 16) + 1])>>

\* The escape of one character (of its UTF-8 bytes) or term: a hexadecimal
\* term holds unreserved characters only, another term becomes the term of
\* its escape.
EscapeChar(tok) ==
    IF tok.s = EAcute THEN PercentOf(195) \o PercentOf(169)
    ELSE IF IsTerm(tok)
    THEN IF tok.x[1] = "hex" THEN <<tok>> ELSE <<Term(<<"escape", tok.x>>)>>
    ELSE IF Unreserved(CodeUnit(tok)) THEN <<tok>>
    ELSE PercentOf(CodeUnit(tok))

RECURSIVE EscapeChars(_)
EscapeChars(str) ==
    IF str = <<>> THEN <<>> ELSE EscapeChar(Head(str)) \o EscapeChars(Tail(str))

\* The escape of one token: a word that holds unreserved characters only stays
\* one word.
EscapeToken(tok) ==
    IF IsTerm(tok) \/ IsChar(tok) THEN EscapeChar(tok)
    ELSE IF \A i \in 1..Len(tok.s) : Unreserved(CodeUnit(Chars(tok.s)[i])) THEN <<tok>>
    ELSE EscapeChars(Chars(tok.s))

\* escape(str)
RECURSIVE escape(_)
escape(str) == IF str = <<>> THEN <<>> ELSE EscapeToken(Head(str)) \o escape(Tail(str))

\* the value of every hexadecimal digit
HexValues ==
    [d \in {HexDigits[i] : i \in 1..16} \cup {UpperHexDigits[i] : i \in 1..16} |->
        (CHOOSE i \in 1..16 : HexDigits[i] = d \/ UpperHexDigits[i] = d) - 1]

\* the value of a hexadecimal digit, -1 for another token
HexValue(tok) ==
    IF IsChar(tok) /\ tok.s \in DOMAIN HexValues THEN HexValues[tok.s] ELSE 0 - 1

\* the character a %XX sequence stands for; a byte that is no character of
\* U+0020 .. U+007E by itself is a term
DecodedChar(x) == IF x \in 32..126 THEN CharOf(x) ELSE Term(<<"byte", x>>)

\* str starts with % and two hexadecimal digits
StartsEscape(str) ==
    /\ Len(str) >= 3 /\ str[1].s = "%"
    /\ HexValue(str[2]) >= 0 /\ HexValue(str[3]) >= 0

EscapedByte(str) == 16 * HexValue(str[2]) + HexValue(str[3])

\* querystring.unescape(str): every % followed by two hexadecimal digits is
\* replaced by the byte of that code, the bytes are read as UTF-8, any other
\* % stays
RECURSIVE unescape(_)
unescape(str) ==
    IF str = <<>> THEN <<>>
    ELSE IF /\ StartsEscape(str) /\ EscapedByte(str) = 195
            /\ StartsEscape(SubSeq(str, 4, Len(str)))
            /\ EscapedByte(SubSeq(str, 4, Len(str))) = 169
    THEN <<Str(EAcute)>> \o unescape(SubSeq(str, 7, Len(str)))
    ELSE IF StartsEscape(str)
    THEN <<DecodedChar(EscapedByte(str))>> \o unescape(SubSeq(str, 4, Len(str)))
    ELSE <<Head(str)>> \o unescape(Tail(str))

\* a < b for two strings spelled out in characters
RECURSIVE CharsLess(_, _)
CharsLess(a, b) ==
    IF b = <<>> THEN FALSE
    ELSE IF a = <<>> THEN TRUE
    ELSE IF CodeUnit(Head(a)) # CodeUnit(Head(b)) THEN CodeUnit(Head(a)) < CodeUnit(Head(b))
    ELSE CharsLess(Tail(a), Tail(b))

\* a < b for two strings: the order of Array.prototype.sort (UTF-16 code units)
StrLess(a, b) == CharsLess(Flat(a), Flat(b))

\* the sorted array with x put in, after the elements that are not greater
RECURSIVE Insert(_, _)
Insert(sorted, x) ==
    IF sorted = <<>> THEN <<x>>
    ELSE IF StrLess(x, Head(sorted)) THEN <<x>> \o sorted
    ELSE <<Head(sorted)>> \o Insert(Tail(sorted), x)

\* array.sort() of an array of strings
RECURSIVE Sort(_)
Sort(array) ==
    IF array = <<>> THEN <<>>
    ELSE Insert(Sort(SubSeq(array, 1, Len(array) - 1)), array[Len(array)])

\* Array.from(new Set(array)): the first occurrence of every element
RECURSIVE Distinct(_)
Distinct(array) ==
    IF array = <<>> THEN <<>>
    ELSE LET before == Distinct(SubSeq(array, 1, Len(array) - 1))
             x == array[Len(array)]
         IN IF \E i \in 1..Len(before) : before[i] = x THEN before ELSE Append(before, x)

(***************************************************************************)
(* Objects used as maps (header maps, parameter objects): a sequence of    *)
(* entries in insertion order, keys unique. A value is a string or a       *)
(* number.                                                                 *)
(***************************************************************************)
StrV(t) == [t |-> "str", s |-> t, n |-> Num(0)]
NumV(a) == [t |-> "num", s |-> <<>>, n |-> a]
Undefined == [t |-> "undef", s |-> <<>>, n |-> Num(0)]

Keys(obj) == [i \in 1..Len(obj) |-> obj[i].key]
Has(obj, k) == \E i \in 1..Len(obj) : obj[i].key = k
Get(obj, k) == IF Has(obj, k)
               THEN obj[CHOOSE i \in 1..Len(obj) : obj[i].key = k].val
               ELSE Undefined

\* obj[k] = v
Put(obj, k, v) ==
    IF Has(obj, k)
    THEN [i \in 1..Len(obj) |-> IF obj[i].key = k THEN [key |-> k, val |-> v] ELSE obj[i]]
    ELSE Append(obj, [key |-> k, val |-> v])

\* delete obj[k]
Delete(obj, k) == SelectSeq(obj, LAMBDA e : e.key # k)

\* { ...a, ...b }, and Object.keys(b).forEach(k => a[k] = b[k])
RECURSIVE Spread(_, _)
Spread(a, b) == IF b = <<>> THEN a
                ELSE Spread(Put(a, Head(b).key, Head(b).val), Tail(b))

\* value + '' / normalizeValue(value), for a string or a number
normalizeValue(v) == IF v.t = "num" THEN NumToText(v.n) ELSE v.s

\* getHeader(headers, name): <<key, value>> of the first key equal to name
\* after lowercasing, <<name, Undefined>> when there is none
getHeader(headers, name) ==
    LET hits == {i \in 1..Len(headers) : toLowerCase(headers[i].key) = name} IN
    IF hits = {} THEN [key |-> name, found |-> FALSE, val |-> <<>>]
    ELSE LET i == CHOOSE j \in hits : \A h \in hits : j <= h IN
         [key |-> headers[i].key, found |-> TRUE,
          val |-> normalizeValue(headers[i].val)]

(***************************************************************************)
(* Symbolic cryptography and key derivation (core.js, appended to          *)
(* dist/http.js from line 327).                                            *)
(***************************************************************************)
Sha256HexLength == 64   \* hex characters of a SHA-256 digest or HMAC-SHA256 signature

\* A run of bytes: the bytes lo .. hi-1 of the byte source src.
Bytes(src, lo, hi) == IF hi <= lo THEN <<"bytes", "", 0, 0>> ELSE <<"bytes", src, lo, hi>>
EmptyBytes == Bytes("", 0, 0)
ByteLength(b) == b[4] - b[3]

\* crypto.createHash('sha256').update(data).digest()
Sha256(data) == <<"sha256", data>>
\* buf.toString('hex'): one token, no character for no bytes
HexOf(buf) == IF buf[1] = "bytes" /\ buf[4] - buf[3] = 0 THEN <<>>
              ELSE <<Term(<<"hex", buf>>)>>
\* t is the hexadecimal term of a buffer
IsHexTerm(t) == Len(t) = 1 /\ t[1].s = "#" /\ t[1].x # <<>> /\ t[1].x[1] = "hex"
\* Buffer.from(str, 'hex'): the bytes of a term, the bytes the characters spell
FromHex(t) == IF IsHexTerm(t) THEN t[1].x[2] ELSE <<"unhex", t>>

MAIN_ALGORITHM == Text("AWS4-HMAC-SHA256")
NL == Str("\n")

RECURSIVE Join(_, _)
Join(texts, sep) ==
    IF texts = <<>> THEN <<>>
    ELSE IF Len(texts) = 1 THEN texts[1]
    ELSE texts[1] \o sep \o Join(Tail(texts), sep)

\* exports.signString
signString(key, sts) == <<"hmac", key, sts>>

\* exports.signDigest
signDigest(algorithm, payloadDigest, timestamp, signing) ==
    signString(signing.key,
               Join(<<algorithm, timestamp, signing.scope, payloadDigest>>, <<NL>>))

\* dateStamp.substring(0, 8): a timestamp is its 8-character date followed by
\* the time of day, a date stamp is the date alone
Substring8(stamp) == <<stamp[1]>>

RECURSIVE DeriveKey(_, _)
DeriveKey(key, parts) ==
    IF parts = <<>> THEN key
    ELSE DeriveKey(signString(key, Head(parts)), Tail(parts))

\* The text of a string of the credentials: its words between its slashes.
RECURSIVE TextOf(_)
TextOf(w) ==
    LET slashes == {i \in 1..Len(w) : SubSeq(w, i, i) = "/"} IN
    IF slashes = {} THEN Text(w)
    ELSE LET i == CHOOSE k \in slashes : \A j \in slashes : k <= j IN
         Text(SubSeq(w, 1, i - 1)) \o <<SLASH>> \o TextOf(SubSeq(w, i + 1, Len(w)))

getSigningData(dateStamp, secretKey, regionName, serviceName) ==
    LET parts == <<Substring8(dateStamp), TextOf(regionName), TextOf(serviceName),
                   Text("aws4_request")>>
    IN [key |-> DeriveKey(<<"key", "AWS4", secretKey>>, parts),
        scope |-> Join(parts, <<SLASH>>)]

\* The closure of a function of makeSimpleCache before its first call.
NoCache == [has |-> FALSE, key |-> "", value |-> [key |-> <<>>, scope |-> <<>>]]
\* No library function called on its own.
Nothing == [fn |-> "none"]

\* [a, b, c, d].join('/'), a being cut to its date
CacheKey(a, b, c, d) == Substring8(a)[1].s \o "/" \o b \o "/" \o c \o "/" \o d

\* key !== nkey
CacheMiss(ch, a, b, c, d) == ~ch.has \/ ch.key # CacheKey(a, b, c, d)

\* _cached_getSigningData(a, b, c, d): the closure's key and value afterwards;
\* the value is what the call returns
cachedGetSigningData(ch, a, b, c, d) ==
    IF CacheMiss(ch, a, b, c, d)
    THEN [has |-> TRUE, key |-> CacheKey(a, b, c, d),
          value |-> getSigningData(Substring8(a), b, c, d)]
    ELSE ch

\* getSigning(dateStamp, credentials, options); options.getSigningData is
\* left out or a function of makeSimpleCache whose closure is options.cache;
\* `cache` is that closure after the call.
getSigning(dateStamp, credentials, options) ==
    LET Derived(ch) ==
            [signing |-> ch.value,
             credential |-> Text(credentials.accessKey) \o <<SLASH>> \o ch.value.scope,
             cache |-> IF options.cached THEN ch ELSE options.cache]
    IN Derived(IF options.cached
               THEN cachedGetSigningData(options.cache, dateStamp, credentials.secretKey,
                                         credentials.regionName, credentials.serviceName)
               ELSE [NoCache EXCEPT !.value =
                        getSigningData(dateStamp, credentials.secretKey,
                                       credentials.regionName, credentials.serviceName)])

(***************************************************************************)
(* Endpoints (dist/util/endpoint.js). A host is its sequence of labels,    *)
(* <<>> when the url has no host.                                          *)
(***************************************************************************)
DEFAULT_REGION == "us-east-1"

\* The host without ENDPOINT_OVERRIDES.
formatHostPlain(serviceName, regionName) ==
    <<serviceName>> \o (IF regionName # "" THEN <<regionName>> ELSE <<>>)
        \o <<"amazonaws", "com">>
formatHost(serviceName, regionName) ==
    LET service == IF serviceName = "ses" THEN "email" ELSE serviceName IN
    <<service>> \o (IF regionName # "" THEN <<regionName>> ELSE <<>>)
        \o <<"amazonaws", "com">>

\* The labels of the model that /^[a-z]{1,3}-[a-z]+-\d{1,2}$/i matches.
isRegion(x) == x \in {"us-east-1", "us-west-2", "eu-west-1"}

\* The labels of the model that are 's3-' followed by a region, with that region.
S3Style == [x \in {"s3-us-west-2", "s3-eu-west-1"} |->
               IF x = "s3-us-west-2" THEN "us-west-2" ELSE "eu-west-1"]

\* The labels of the model that end in '-fips', with the suffix cut off.
Fips == [x \in {"s3-fips", "email-fips"} |-> IF x = "s3-fips" THEN "s3" ELSE "email"]

\* parseHost: the regular expression matches a host that ends in
\* <label>.amazonaws.com or <label>.amazonaws.com.cn; match[4] is that label,
\* match[3] the label before it, if any.
parseHost(host) ==
    LET n == IF host # <<>> /\ toLowerCase(host[Len(host)]) = "cn"
             THEN Len(host) - 1 ELSE Len(host)
        matches == /\ n >= 3
                   /\ toLowerCase(host[n]) = "com"
                   /\ toLowerCase(host[n - 1]) = "amazonaws"
        m4 == toLowerCase(host[n - 2])
        m3 == IF n >= 4 THEN toLowerCase(host[n - 3]) ELSE ""
        a == IF m3 # ""
             THEN IF isRegion(m4) THEN <<m3, m4>>
                  ELSE IF ~isRegion(m3) THEN <<m4, DEFAULT_REGION>>
                  ELSE <<m4, m3>>
             ELSE <<m4, DEFAULT_REGION>>
        b == IF a[1] \in DOMAIN S3Style THEN <<"s3", S3Style[a[1]]>> ELSE a
        c == IF b[1] \in DOMAIN Fips THEN Fips[b[1]] ELSE b[1]
        d == IF c = "email" THEN "ses" ELSE c
    IN IF ~matches THEN [err |-> "Hostname can't be parsed", regionName |-> "",
                         serviceName |-> ""]
       ELSE [err |-> "", regionName |-> b[2], serviceName |-> d]

(***************************************************************************)
(* Canonical request and Authorization header (dist/http.js).              *)
(***************************************************************************)
EMPTY_HASH == HexOf(Sha256(EmptyBytes))

\* A request body or chunk: nothing, a Buffer, or a { hash, length } descriptor.
NoBody == [t |-> "none", bytes |-> EmptyBytes, hash |-> <<>>, length |-> 0]
BufferOf(b) == [t |-> "buffer", bytes |-> b, hash |-> <<>>, length |-> ByteLength(b)]
Descriptor(h, n) == [t |-> "desc", bytes |-> EmptyBytes, hash |-> h, length |-> n]

hashBody(body) ==
    IF body.t = "none" THEN EMPTY_HASH
    ELSE IF body.t = "desc" THEN body.hash
    ELSE HexOf(Sha256(body.bytes))

\* The canonical headers are the lowercased names in sorted order, each with
\* its trimmed value: a sorted list without repetition is modelled as the set.
getCanonicalHeaders(headers) ==
    LET name(i) == toLowerCase(headers[i].key)
        dups == {j \in 1..Len(headers) : \E i \in 1..(j - 1) : name(i) = name(j)}
        value(i) == collapse(trim(normalizeValue(headers[i].val)))
    IN IF dups # {}
       THEN [err |-> "Duplicate headers found", canonical |-> {}, signed |-> {}]
       ELSE [err |-> "",
             canonical |-> {<<name(i), value(i)>> : i \in 1..Len(headers)},
             signed |-> {name(i) : i \in 1..Len(headers)}]

COLON == Str(":")
SEMICOLON == Str(";")
LF == Str("\n")

\* The names and values of the header map as they are given.
normalizedAsGiven(headers) ==
    [i \in 1..Len(headers) |->
        [key |-> Text(headers[i].key), val |-> normalizeValue(headers[i].val)]]
\* `normalized` of getCanonicalHeaders, when no name is found twice: the
\* lowercased names with the trimmed values, in the order of the header map.
\* The header values of the model are strings and numbers.
normalized(headers) ==
    [i \in 1..Len(headers) |->
        [key |-> Text(toLowerCase(headers[i].key)),
         val |-> collapse(trim(normalizeValue(headers[i].val)))]]

\* `signedHeaders` of getCanonicalHeaders: Object.keys(normalized).sort()
signedHeaders(headers) ==
    LET Names(n) == Sort([i \in 1..Len(n) |-> n[i].key])
    IN Names(normalized(headers))

\* `canonicalHeaders` of getCanonicalHeaders: the lines k:normalized[k]\n
canonicalHeaders(headers) ==
    LET Lines(n, names) ==
            [i \in 1..Len(names) |->
                names[i] \o <<COLON>>
                \o n[CHOOSE j \in 1..Len(n) : n[j].key = names[i]].val \o <<LF>>]
    IN Join(Lines(normalized(headers), signedHeaders(headers)), <<>>)

\* The two strings getCanonicalHeaders returns, or the error it throws.
getCanonicalHeadersText(headers) ==
    IF getCanonicalHeaders(headers).err # ""
    THEN [err |-> getCanonicalHeaders(headers).err, block |-> <<>>, signed |-> <<>>]
    ELSE [err |-> "", block |-> canonicalHeaders(headers),
          signed |-> Join(signedHeaders(headers), <<SEMICOLON>>)]

\* The loop of getCanonicalURI over the parts still to visit: newParts and
\* endingSlash when it ends.
RECURSIVE ResolveDots(_, _, _)
ResolveDots(parts, newParts, endingSlash) ==
    IF parts = <<>> THEN [newParts |-> newParts, endingSlash |-> endingSlash]
    ELSE IF Head(parts) = Chars("..")
    THEN ResolveDots(Tail(parts),
                     IF newParts = <<>> THEN <<>>
                     ELSE SubSeq(newParts, 1, Len(newParts) - 1), TRUE)
    ELSE IF ~(Head(parts) = <<>> \/ Head(parts) = Chars("."))
    THEN ResolveDots(Tail(parts), Append(newParts, Head(parts)), FALSE)
    ELSE ResolveDots(Tail(parts), newParts, TRUE)

\* parts.map(f)
MapText(parts, f(_)) == [i \in 1..Len(parts) |-> f(parts[i])]

\* The options of the signing functions; an option that is left out is false.
NoOptions == [query |-> FALSE, set |-> FALSE, setContentHash |-> FALSE,
              dontNormalize |-> FALSE, onlyEncodeOnce |-> FALSE,
              cached |-> FALSE, cache |-> NoCache]

\* pathName.split('/').map(unescape)
PathParts(pathName) == MapText(split(Flat(pathName), SLASH), unescape)

\* The resolved parts without the empty part that ends them.
NormalizedPartsOpen(parts) ==
    <<(<<>>)>> \o ResolveDots(parts, <<>>, TRUE).newParts
\* [''].concat(newParts).concat(endingSlash ? [''] : [])
NormalizedParts(parts) ==
    LET r == ResolveDots(parts, <<>>, TRUE) IN
    <<(<<>>)>> \o r.newParts \o (IF r.endingSlash THEN <<(<<>>)>> ELSE <<>>)

\* parts.join('/')
JoinParts(parts) == Join(parts, <<SLASH>>)

getCanonicalURI(pathName, options) ==
    LET parts == IF ~options.dontNormalize THEN NormalizedParts(PathParts(pathName))
                 ELSE PathParts(pathName)
        once == MapText(parts, escape)
    IN JoinParts(IF ~options.onlyEncodeOnce THEN MapText(once, escape) ELSE once)

\* A URLSearchParams object: its name-value pairs in order. The methods
\* the code calls:
QueryKeys(query) == [i \in 1..Len(query) |-> Flat(query[i].key)]
QueryGetAll(query, key) ==
    LET Values(hits) == [i \in 1..Len(hits) |-> hits[i].val]
    IN Values(SelectSeq(query, LAMBDA e : SameStr(e.key, key)))
QueryHas(query, key) == \E i \in 1..Len(query) : SameStr(query[i].key, key)
\* get: the first value of the name, null when there is none
QueryGet(query, key) == IF QueryHas(query, key) THEN QueryGetAll(query, key)[1] ELSE <<>>
QueryDelete(query, key) == SelectSeq(query, LAMBDA e : ~SameStr(e.key, key))
\* set: the first pair of the name gets the value, its other pairs go; a new
\* name is appended
QuerySet(query, key, val) ==
    IF ~QueryHas(query, key) THEN Append(query, [key |-> key, val |-> val])
    ELSE LET first == CHOOSE i \in 1..Len(query) :
                         /\ SameStr(query[i].key, key)
                         /\ \A j \in 1..(i - 1) : ~SameStr(query[j].key, key)
             marked == [i \in 1..Len(query) |->
                          [at |-> i, e |-> IF i = first
                                           THEN [key |-> query[i].key, val |-> val]
                                           ELSE query[i]]]
             kept == SelectSeq(marked, LAMBDA m : m.at = first \/ ~SameStr(m.e.key, key))
         IN [i \in 1..Len(kept) |-> kept[i].e]

\* The parts of one key with its values in the order of the query.
KeyPartsUnsorted(query, key) ==
    LET Parts(values) == [i \in 1..Len(values) |->
                             escape(key) \o <<EQ>> \o escape(values[i])]
    IN Parts(QueryGetAll(query, key))
\* The parts of one key of getCanonicalQuery: escape(key) + '=' + escape(value)
\* for its values in sorted order.
KeyParts(query, key) ==
    LET Parts(values) == [i \in 1..Len(values) |->
                             escape(key) \o <<EQ>> \o escape(values[i])]
    IN Parts(Sort(QueryGetAll(query, key)))

\* The loop of getCanonicalQuery over the keys still to visit.
RECURSIVE QueryParts(_, _)
QueryParts(query, keys) ==
    IF keys = <<>> THEN <<>>
    ELSE IF Head(keys) = <<>> THEN QueryParts(query, Tail(keys))
    ELSE KeyParts(query, Head(keys)) \o QueryParts(query, Tail(keys))

AMP == Str("&")

getCanonicalQuery(query) ==
    Join(QueryParts(query, Sort(Distinct(QueryKeys(query)))), <<AMP>>)

\* The loop of getCanonicalQuery of src/http.ts over the keys still to visit,
\* parts being the parts pushed so far: an empty key returns from the function
\* (`return`), with no value.
RECURSIVE QueryLoopSrc(_, _, _)
QueryLoopSrc(query, keys, parts) ==
    IF keys = <<>> THEN [returned |-> FALSE, parts |-> parts]
    ELSE IF Head(keys) = <<>> THEN [returned |-> TRUE, parts |-> parts]
    ELSE QueryLoopSrc(query, Tail(keys), parts \o KeyParts(query, Head(keys)))

\* getCanonicalQuery of src/http.ts: a string, or undefined
getCanonicalQuerySrc(query) ==
    LET Result(loop) == IF loop.returned THEN [defined |-> FALSE, str |-> <<>>]
                        ELSE [defined |-> TRUE, str |-> Join(loop.parts, <<AMP>>)]
    IN Result(QueryLoopSrc(query, Sort(Distinct(QueryKeys(query))), <<>>))

\* The spellings of the methods of the model; method.toUpperCase().trim()
UpperMethod(method) ==
    CASE method = "put" -> "PUT"
      [] method = "get" -> "GET"
      [] OTHER -> method

\* The canonical request: its six fields (joined by newlines in the code).
getCanonical(method, pathname, query, cheaders, body, options) ==
    <<"creq", UpperMethod(method), getCanonicalURI(pathname, options),
      getCanonicalQuery(query), cheaders.canonical, cheaders.signed, hashBody(body)>>

SignedHeadersText(names) == <<Term(<<"names", names>>)>>

buildAuthorization(data) ==
    data.algorithm \o <<SP>> \o
    Join(<<<<Str("Credential"), EQ>> \o data.credential,
           <<Str("SignedHeaders"), EQ>> \o data.signedHeaders,
           <<Str("Signature"), EQ>> \o HexOf(data.signature)>>, <<COMMA, SP>>)

\* x is one or more pairs of characters of the given set, or the hexadecimal
\* term of a buffer (lowercase hexadecimal digits)
IsPairsOf(x, allowed) ==
    \/ IsHexTerm(x)
    \/ /\ x # <<>> /\ Len(Flat(x)) % 2 = 0
       /\ \A i \in 1..Len(Flat(x)) : ~IsTerm(Flat(x)[i]) /\ Flat(x)[i].s \in allowed

LowerHexChars == {HexDigits[i] : i \in 1..16}
\* /^([0-9a-f]{2})+$/
IsHex(x) == IsPairsOf(x, LowerHexChars)

\* a split at the last occurrence of the token
split1Last(x, token) ==
    LET hits == {i \in 1..Len(x) : x[i] = token} IN
    IF hits = {} THEN [ok |-> FALSE, a |-> <<>>, b |-> <<>>]
    ELSE LET idx == CHOOSE i \in hits : \A j \in hits : j <= i IN
         [ok |-> TRUE, a |-> SubSeq(x, 1, idx - 1), b |-> SubSeq(x, idx + 1, Len(x))]
split1(x, token) ==
    LET idx == indexOf(x, token) IN
    IF idx = 0 THEN [ok |-> FALSE, a |-> <<>>, b |-> <<>>]
    ELSE [ok |-> TRUE, a |-> SubSeq(x, 1, idx - 1), b |-> SubSeq(x, idx + 1, Len(x))]

parseAuthorization(header) ==
    LET parts == split1(trimLeft(header), SP)
        raw == split(parts.b, COMMA)
        pairs == [i \in 1..Len(raw) |-> split1(trim(raw[i]), EQ)]
        has(f) == \E i \in 1..Len(pairs) : SameStr(pairs[i].a, Text(f))
        \* new Map(entries): the last entry of a key wins
        get(f) == pairs[CHOOSE i \in 1..Len(pairs) :
                            /\ SameStr(pairs[i].a, Text(f))
                            /\ \A j \in (i + 1)..Len(pairs) :
                                  ~SameStr(pairs[j].a, Text(f))].b
        none == [err |-> "", algorithm |-> <<>>, credential |-> <<>>,
                 signedHeaders |-> <<>>, signature |-> <<>>]
    IN IF ~parts.ok \/ \E i \in 1..Len(pairs) : ~pairs[i].ok
       THEN [none EXCEPT !.err = "Invalid authorization header structure"]
       ELSE IF ~has("Signature") \/ ~has("Credential") \/ ~has("SignedHeaders")
       THEN [none EXCEPT !.err = "Invalid authorization header (missing / extra fields)"]
       ELSE IF ~IsHex(get("Signature"))
       THEN [none EXCEPT !.err = "Invalid signature format"]
       ELSE [err |-> "", algorithm |-> trim(parts.a), credential |-> get("Credential"),
             signedHeaders |-> get("SignedHeaders"),
             signature |-> FromHex(get("Signature"))]

\* The characters of /[0-9a-z]/i
AlnumChars ==
    {Printable[i] : i \in 17..26} \cup {Printable[i] : i \in 34..59}
        \cup {Printable[i] : i \in 66..91}

\* parseAuthorization of src/http.ts
parseAuthorizationSrc(header) ==
    LET parts == split1(header, SP)
        raw == split(parts.b, COMMA)
        split2(x) == [ok |-> split1(x, EQ).ok, a |-> trim(split1(x, EQ).a),
                      b |-> trim(split1(x, EQ).b)]
        pairs == [i \in 1..Len(raw) |-> split2(raw[i])]
        has(f) == \E i \in 1..Len(pairs) : SameStr(pairs[i].a, Text(f))
        get(f) == pairs[CHOOSE i \in 1..Len(pairs) :
                            /\ SameStr(pairs[i].a, Text(f))
                            /\ \A j \in (i + 1)..Len(pairs) :
                                  ~SameStr(pairs[j].a, Text(f))].b
        none == [err |-> "", algorithm |-> <<>>, credential |-> <<>>,
                 signedHeaders |-> <<>>, signature |-> <<>>]
    IN IF ~parts.ok
       THEN [none EXCEPT !.err = "Invalid authorization header structure"]
       ELSE IF Len(raw) # 3
       THEN [none EXCEPT !.err = "Invalid authorization header (missing / extra fields)"]
       ELSE IF \E i \in 1..Len(pairs) : ~pairs[i].ok
       THEN [none EXCEPT !.err = "Invalid authorization header structure"]
       ELSE IF ~has("Signature") \/ ~has("Credential") \/ ~has("SignedHeaders")
       THEN [none EXCEPT !.err = "Invalid authorization header (missing / extra fields)"]
       ELSE IF ~IsPairsOf(get("Signature"), AlnumChars)
       THEN [none EXCEPT !.err = "Invalid signature format"]
       ELSE [err |-> "", algorithm |-> trim(parts.a), credential |-> get("Credential"),
             signedHeaders |-> get("SignedHeaders"),
             signature |-> FromHex(get("Signature"))]

(***************************************************************************)
(* Request signing (dist/http.js signRequestRaw and signRequest, s3.js     *)
(* signS3Request). A failed call is a record whose err is the message.     *)
(***************************************************************************)
PAYLOAD_UNSIGNED == Text("UNSIGNED-PAYLOAD")
PAYLOAD_STREAMING == Text("STREAMING-AWS4-HMAC-SHA256-PAYLOAD")

NoResult == [err |-> "", result |-> <<>>, signs |-> 0, cache |-> NoCache]

\* Object.keys(result).forEach(k => query.set(k, result[k]))
RECURSIVE QuerySetAll(_, _)
QuerySetAll(query, result) ==
    IF result = <<>> THEN query
    ELSE QuerySetAll(QuerySet(query, Text(Head(result).key),
                              normalizeValue(Head(result).val)), Tail(result))

\* no timestamp is taken from the request
ExtractTimestampNever(isQuery, query, headers) == <<>>

\* isQuery ? query.get('X-Amz-Date') : getHeader(headers, 'x-amz-date')[1]
ExtractTimestamp(isQuery, query, headers) ==
    LET date == getHeader(headers, "x-amz-date") IN
    IF isQuery THEN QueryGet(query, Text("X-Amz-Date"))
    ELSE IF date.found THEN date.val ELSE <<>>

\* signRequestRaw(credentials, method, pathname, query, headers, body, options);
\* now is what formatTimestamp() returns when it is called.
signRequestRaw(credentials, method, pathname, query, headers, body, options, now) ==
    LET isQuery == options.query
        parameter == IF isQuery THEN "X-Amz-Signature"
                     ELSE getHeader(headers, "authorization").key
        given == ExtractTimestamp(isQuery, query, headers)
        hasStamp == given # <<>>
        timestamp == IF hasStamp THEN given ELSE now
        r1 == IF hasStamp THEN <<>>
              ELSE <<[key |-> IF isQuery THEN "X-Amz-Date" ELSE "x-amz-date",
                      val |-> StrV(now)]>>
        hash == hashBody(body)
        r2 == IF ~isQuery /\ options.setContentHash
              THEN Put(r1, getHeader(headers, "x-amz-content-sha256").key, StrV(hash))
              ELSE r1
        sg == getSigning(timestamp, credentials, options)
        h2 == IF isQuery THEN headers ELSE Delete(Spread(headers, r2), parameter)
        \* the rest of the call once the canonical headers are there
        Canonical(cheaders) ==
            LET r3 == IF isQuery
                      THEN r2 \o <<[key |-> "X-Amz-Algorithm", val |-> StrV(MAIN_ALGORITHM)],
                                   [key |-> "X-Amz-Credential", val |-> StrV(sg.credential)],
                                   [key |-> "X-Amz-SignedHeaders",
                                    val |-> StrV(SignedHeadersText(cheaders.signed))]>>
                      ELSE r2
                q2 == IF isQuery THEN QueryDelete(QuerySetAll(query, r3), Text(parameter))
                      ELSE query
                creq == getCanonical(method, pathname, q2, cheaders, Descriptor(hash, 0),
                                     options)
                digest == HexOf(Sha256(creq))
                signature == signDigest(MAIN_ALGORITHM, digest, timestamp, sg.signing)
                auth == buildAuthorization(
                            [signature |-> signature, credential |-> sg.credential,
                             algorithm |-> MAIN_ALGORITHM,
                             signedHeaders |-> SignedHeadersText(cheaders.signed)])
            IN IF cheaders.err # ""
               THEN [NoResult EXCEPT !.err = cheaders.err, !.cache = sg.cache]
               ELSE [err |-> "", signs |-> 1, cache |-> sg.cache,
                     result |-> Put(r3, parameter,
                                    StrV(IF isQuery THEN HexOf(signature) ELSE auth))]
    IN Canonical(getCanonicalHeaders(h2))

HostValue(host) == StrV(<<Term(<<"host", host>>)>>)

\* if (options && options.set) { if (options && options.query) ... else ... }
SetsQuery(options) == options.set /\ options.query

SetsHeadersAlways(options) == ~options.query
SetsHeaders(options) == options.set /\ ~options.query

\* signRequest(credentials, request, options). A request is its method, the
\* parts of its url (urlString: request.url is a string; host; pathname;
\* hasParams: the url has searchParams; query: their pairs), its header map
\* (hasHeaders: request.headers is there), body and `unsigned`. The outcome
\* carries the caller-visible objects the call writes to: the url's host and
\* search parameters and the header map.
signRequest(credentials, req, options, now) ==
    LET noHost == req.host = <<>>
        fail(msg) == [err |-> msg, result |-> <<>>, signs |-> 0, host |-> req.host,
                      hasHeaders |-> req.hasHeaders, headers |-> req.headers,
                      hasParams |-> req.hasParams, query |-> req.query,
                      cache |-> options.cache]
        parsed == parseHost(req.host)
        needParse == ~noHost /\ (credentials.serviceName = "" \/ credentials.regionName = "")
        host == IF noHost
                THEN formatHost(credentials.serviceName, credentials.regionName)
                ELSE req.host
        \* url.host = ... writes to the caller's url unless request.url is a string
        urlHost == IF req.urlString THEN req.host ELSE host
        creds == IF noHost
                 THEN [credentials EXCEPT !.regionName =
                          IF @ = "" THEN DEFAULT_REGION ELSE @]
                 ELSE IF needParse
                 THEN [credentials EXCEPT
                          !.regionName = IF @ = "" THEN parsed.regionName ELSE @,
                          !.serviceName = IF @ = "" THEN parsed.serviceName ELSE @]
                 ELSE credentials
        hostHeader == getHeader(req.headers, "host")
        headers == IF hostHeader.found /\ hostHeader.val # <<>> THEN req.headers
                   ELSE Put(req.headers, "host", HostValue(host))
        setQuery == SetsQuery(options)
        setHeaders == SetsHeaders(options)
        \* the outcome once signRequestRaw has returned or thrown
        Signed(raw) ==
            IF raw.err # "" THEN [fail(raw.err) EXCEPT !.host = urlHost, !.cache = raw.cache]
            ELSE [err |-> "", result |-> raw.result, signs |-> raw.signs,
                  cache |-> raw.cache,
                  host |-> urlHost,
                  hasHeaders |-> req.hasHeaders \/ setHeaders,
                  headers |-> IF setHeaders THEN Spread(req.headers, raw.result)
                              ELSE req.headers,
                  hasParams |-> req.hasParams \/ setQuery,
                  query |-> IF setQuery THEN QuerySetAll(req.query, raw.result)
                            ELSE req.query]
    IN IF noHost /\ credentials.serviceName = ""
       THEN fail("Neither url.host nor serviceName was provided")
       ELSE IF needParse /\ parsed.err # "" THEN fail(parsed.err)
       ELSE Signed(signRequestRaw(creds, IF req.method = "" THEN "GET" ELSE req.method,
                                  IF req.pathname = <<>> THEN <<SLASH>> ELSE req.pathname,
                                  req.query, headers, req.body, options, now))

S3_OPTIONS == [dontNormalize |-> TRUE, onlyEncodeOnce |-> TRUE, setContentHash |-> TRUE]
EXPIRES_MAX == 604800

\* signS3Request(credentials, request, options); `unsigned` left out of the
\* request is `unsigned: false` in header mode.
signS3Request(credentials, req, options, now) ==
    LET isQuery == options.query
        unsigned == req.unsigned \/ isQuery
        needExpires == isQuery /\ ~QueryHas(req.query, Text("X-Amz-Expires"))
        extra == IF needExpires
                 THEN <<[key |-> "X-Amz-Expires", val |-> StrV(Text(Dec(EXPIRES_MAX)))]>>
                 ELSE <<>>
        \* patchURL works on a copy of a url object unless `set` is there
        copied == needExpires /\ ~options.set /\ ~req.urlString
        \* the url object that signRequest is given is the caller's own
        own == ~req.urlString /\ ~copied
        inner == [req EXCEPT !.urlString = FALSE,
                             !.hasParams = @ \/ needExpires,
                             !.query = QuerySetAll(@, extra),
                             !.hasHeaders = @ \/ (options.set /\ ~isQuery),
                             !.body = IF unsigned THEN Descriptor(PAYLOAD_UNSIGNED, 0)
                                      ELSE req.body]
        creds == IF req.host = <<>> /\ credentials.serviceName = ""
                 THEN [credentials EXCEPT !.serviceName = "s3"] ELSE credentials
        \* the caller's request once signRequest has returned or thrown
        Signed(r) ==
            IF own THEN [r EXCEPT !.result = IF r.err = "" THEN Spread(extra, @) ELSE @]
            ELSE IF r.err # ""
            THEN [r EXCEPT !.host = req.host, !.hasParams = req.hasParams,
                           !.query = req.query]
            ELSE IF req.urlString /\ options.set /\ isQuery
            THEN [r EXCEPT !.result = Spread(extra, @)]
            ELSE [r EXCEPT !.result = Spread(extra, @),
                           !.host = IF req.urlString THEN req.host ELSE r.host,
                           !.hasParams = req.hasParams, !.query = req.query]
    IN Signed(signRequest(creds, inner,
                          [options EXCEPT !.dontNormalize = S3_OPTIONS.dontNormalize,
                                          !.onlyEncodeOnce = S3_OPTIONS.onlyEncodeOnce,
                                          !.setContentHash = S3_OPTIONS.setContentHash],
                          now))

(***************************************************************************)
(* The chunk signature chain (dist/s3_chunked.js).                         *)
(***************************************************************************)
CHUNK_MIN == 8192
SignatureLength == 64   \* the literal 64 of the totalLength computation
CRLFLength == 4         \* the literal 4 of the totalLength computation
ALGORITHM_STREAMING == Text("AWS4-HMAC-SHA256-PAYLOAD")
CRLF == Str("\r\n")

calculateChunks(bodyLength, chunkLength) ==
    LET chunks == JsFloorDiv(bodyLength, chunkLength) IN
    IF ~JsSame(MathFloor(chunkLength), chunkLength) \/ JsLt(chunkLength, Num(CHUNK_MIN))
    THEN [err |-> "Invalid chunk length", chunks |-> NaN, lastLength |-> NaN]
    ELSE IF ~JsSame(MathFloor(bodyLength), bodyLength) \/ JsLt(bodyLength, Num(0))
    THEN [err |-> "Invalid body length", chunks |-> NaN, lastLength |-> NaN]
    ELSE [err |-> "", chunks |-> chunks,
          lastLength |-> JsSub(bodyLength, JsMul(chunks, chunkLength))]

\* patchHeaders(request, extra, set): the header map that is signed
patchHeaders(req, extra) == Spread(req.headers, extra)

\* /^\s*aws-chunked\s*($|,)/i.test(encoding)
IsAwsChunked(encoding) ==
    LET t == trimLeft(encoding) IN
    /\ t # <<>>
    /\ toLowerCase(t[1].s) = "aws-chunked"
    /\ LET r == trimLeft(Tail(t)) IN r = <<>> \/ r[1] = COMMA

signS3Chunk(lastSignature, signing, timestamp, chunk) ==
    LET digest == Join(<<lastSignature, EMPTY_HASH, hashBody(chunk)>>, <<NL>>) IN
    HexOf(signDigest(ALGORITHM_STREAMING, digest, timestamp, signing))

NoClosure ==
    [bodyLength |-> NaN, chunkLength |-> NaN, lastLength |-> NaN,
     chunkHeader |-> "", lastHeader |-> "", finalHeader |-> "",
     signing |-> [key |-> <<>>, scope |-> <<>>], timestamp |-> <<>>,
     signature |-> <<>>, dataCount |-> Num(0), done |-> FALSE]

\* The total length with the frame of the short chunk always counted.
TotalLengthAlwaysLast(bodyLength, cc, chunkHeader, lastHeader, finalHeader) ==
    LET frame(hd) == Num(Len(hd) + SignatureLength + CRLFLength) IN
    JsAdd(JsAdd(JsAdd(bodyLength, JsMul(frame(chunkHeader), cc.chunks)),
                frame(lastHeader)),
          frame(finalHeader))

\* totalLength: the body plus the frames of all chunks (lines 97-98)
TotalLength(bodyLength, cc, chunkHeader, lastHeader, finalHeader) ==
    LET frame(hd) == Num(Len(hd) + SignatureLength + CRLFLength) IN
    JsAdd(JsAdd(JsAdd(bodyLength, JsMul(frame(chunkHeader), cc.chunks)),
                IF Truthy(cc.lastLength) THEN frame(lastHeader) ELSE Num(0)),
          frame(finalHeader))

\* signS3ChunkedRequest(credentials, request, bodyLength, chunkLength, options):
\* what it throws (err), the caller's request afterwards, the returned
\* parameters, the variables the returned chunkSigner closes over, and the
\* number of signatures computed.
\* gsd is options.getSigningData: left out (cached is false), or a function of
\* makeSimpleCache whose closure is gsd.cache; `cache` is that closure afterwards.
signS3ChunkedRequestOpt(a, req, gsd) ==
    LET cc == calculateChunks(a.bodyLength, a.chunkLength)
        chunkHeader == ToString16(a.chunkLength) \o ";chunk-signature="
        lastHeader == ToString16(cc.lastLength) \o ";chunk-signature="
        finalHeader == "0;chunk-signature="
        totalLength == TotalLength(a.bodyLength, cc, chunkHeader, lastHeader, finalHeader)
        enc == getHeader(req.headers, "content-encoding")
        e1 == IF enc.val # <<>> /\ IsAwsChunked(enc.val) THEN <<>>
              ELSE <<[key |-> enc.key,
                      val |-> StrV(Text("aws-chunked") \o
                                   (IF enc.val # <<>> THEN <<COMMA>> \o enc.val
                                    ELSE <<>>))]>>
        date == getHeader(req.headers, "x-amz-date")
        hasStamp == date.found /\ date.val # <<>>
        timestamp == IF hasStamp THEN date.val ELSE a.now
        e2 == IF hasStamp THEN e1 ELSE Put(e1, "x-amz-date", StrV(a.now))
        e3 == Put(e2, "content-length", NumV(totalLength))
        extra == Put(e3, "x-amz-decoded-content-length", NumV(a.bodyLength))
        headers == patchHeaders(req, extra)
        \* with `set` the patched map is the caller's own header object
        patched == IF a.set THEN [req EXCEPT !.hasHeaders = TRUE, !.headers = headers]
                   ELSE req
        fail(msg, r, n, ch) == [err |-> msg, request |-> r, parameters |-> <<>>,
                                closure |-> NoClosure, signs |-> n, cache |-> ch]
        \* lines 121-143, auth being the parsed Authorization parameter
        Parsed(after, params, signs, auth, ch) ==
            LET scope == split(auth.credential, SLASH)
                derived == IF gsd.cached
                           THEN cachedGetSigningData(ch, timestamp, a.credentials.secretKey,
                                                     scope[3][1].s, scope[4][1].s)
                           ELSE [ch EXCEPT !.value =
                                    getSigningData(timestamp, a.credentials.secretKey,
                                                   scope[3][1].s, scope[4][1].s)]
                signing == derived.value
            IN IF auth.err # "" THEN fail(auth.err, after, signs, ch)
               ELSE [err |-> "", request |-> after, parameters |-> params,
                     signs |-> signs, cache |-> IF gsd.cached THEN derived ELSE ch,
                     closure |-> [bodyLength |-> a.bodyLength,
                                  chunkLength |-> a.chunkLength,
                                  lastLength |-> cc.lastLength,
                                  chunkHeader |-> chunkHeader,
                                  lastHeader |-> lastHeader,
                                  finalHeader |-> finalHeader,
                                  signing |-> signing, timestamp |-> timestamp,
                                  signature |-> HexOf(auth.signature),
                                  dataCount |-> Num(0), done |-> FALSE]]
        \* line 120, params being the returned parameters
        Returned(after, params, signs, ch) ==
            IF Get(params, "authorization").t = "undef"
            THEN fail("TypeError: Cannot read property 'trimLeft' of undefined",
                      after, signs, ch)
            ELSE Parsed(after, params, signs,
                        parseAuthorization(Get(params, "authorization").s), ch)
        \* lines 110-119, signed being what signS3Request returned or threw
        Signed(signed) ==
            IF signed.err # ""
            THEN fail(signed.err,
                      IF a.set THEN [patched EXCEPT !.host = signed.host,
                                                    !.headers = signed.headers]
                      ELSE [patched EXCEPT !.host = signed.host],
                      signed.signs, signed.cache)
            ELSE Returned(IF a.set THEN [patched EXCEPT !.host = signed.host,
                                                        !.headers = signed.headers]
                          ELSE [patched EXCEPT !.host = signed.host],
                          Spread(extra, signed.result), signed.signs, signed.cache)
    IN IF cc.err # "" THEN fail(cc.err, req, 0, gsd.cache)
       ELSE Signed(signS3Request(a.credentials,
                      [req EXCEPT !.hasHeaders = TRUE, !.headers = headers,
                                  !.body = Descriptor(PAYLOAD_STREAMING, 0)],
                      [NoOptions EXCEPT !.set = a.set, !.cached = gsd.cached,
                                        !.cache = gsd.cache], a.now))

\* signS3ChunkedRequest without the option getSigningData
signS3ChunkedRequest(a, req) ==
    signS3ChunkedRequestOpt(a, req, [cached |-> FALSE, cache |-> NoCache])

\* chunk ? chunk.length : 0
ChunkLength(chunk) == IF chunk.t = "none" THEN 0 ELSE chunk.length

\* A chunk signer that forgets that it is complete.
CompletedForgotten(cl) == FALSE

\* if (done) throw ...
Completed(cl) == cl.done

\* The expected chunk with the comparison of line 129 off by one (<= for <).
ExpectedChunkOffByOne(cl) ==
    LET rest == JsSub(cl.bodyLength, cl.dataCount)
        short == JsLt(rest, cl.chunkLength) \/ JsSame(rest, cl.chunkLength)
        atEnd == JsSame(cl.dataCount, cl.bodyLength)
    IN IF ~short THEN [length |-> cl.chunkLength, header |-> cl.chunkHeader]
       ELSE IF ~atEnd THEN [length |-> cl.lastLength, header |-> cl.lastHeader]
       ELSE [length |-> Num(0), header |-> cl.finalHeader]

\* The length and the header the next call must have (lines 128-132).
ExpectedChunk(cl) ==
    LET short == JsLt(JsSub(cl.bodyLength, cl.dataCount), cl.chunkLength)
        atEnd == JsSame(cl.dataCount, cl.bodyLength)
    IN IF ~short THEN [length |-> cl.chunkLength, header |-> cl.chunkHeader]
       ELSE IF ~atEnd THEN [length |-> cl.lastLength, header |-> cl.lastHeader]
       ELSE [length |-> Num(0), header |-> cl.finalHeader]

\* The frame with the leading CRLF decided by the length alone.
FrameStringNoFirst(dataCount, length, header, signature) ==
    (IF ~Truthy(length) THEN <<>> ELSE <<CRLF>>)
    \o <<Str(header)>> \o signature \o <<CRLF>>
    \o (IF Truthy(length) THEN <<>> ELSE <<CRLF>>)

\* The string the call returns, dataCount being the count after the call.
FrameString(dataCount, length, header, signature) ==
    (IF JsSame(dataCount, length) THEN <<>> ELSE <<CRLF>>)
    \o <<Str(header)>> \o signature \o <<CRLF>>
    \o (IF Truthy(length) THEN <<>> ELSE <<CRLF>>)

\* the count is the length of the latest chunk
CountedLatest(cl, length) == length

\* dataCount += length
Counted(cl, length) == JsAdd(cl.dataCount, length)

\* the closure counts the chunk before the call throws
ThrownCounted(cl, length, msg) ==
    [err |-> msg, frame |-> <<>>, length |-> length,
     closure |-> [cl EXCEPT !.dataCount = JsAdd(cl.dataCount, length)]]

\* throw new Error(msg): the call ends before the closure's variables are
\* assigned
Thrown(cl, length, msg) ==
    [err |-> msg, frame |-> <<>>, length |-> length, closure |-> cl]

\* One call of the chunkSigner closure cl with `chunk`: what it throws (err),
\* the string it returns (frame) and the closure's variables afterwards.
chunkSigner(cl, chunk) ==
    LET e == ExpectedChunk(cl)
        signature == signS3Chunk(cl.signature, cl.signing, cl.timestamp, chunk)
        dataCount == Counted(cl, e.length)
        fail(msg) == Thrown(cl, e.length, msg)
    IN IF Completed(cl) THEN fail("Payload is complete, no more calls are needed")
       ELSE IF ~JsSame(Num(ChunkLength(chunk)), e.length)
       THEN fail("Unexpected chunk size")
       ELSE [err |-> "",
             frame |-> FrameString(dataCount, e.length, e.header, signature),
             length |-> e.length,
             closure |-> [cl EXCEPT !.signature = signature,
                                    !.dataCount = dataCount,
                                    !.done = ~Truthy(e.length)]]

(***************************************************************************)
(* The inputs of the model.                                                *)
(***************************************************************************)
ChunkLengths == {CHUNK_MIN, 65536}
ShortLengths(c) == {0, 100, c - 1}
BodyLengths(c) == {k * c + r : k \in 0..MaxChunks, r \in ShortLengths(c)}

ValidSizes == UNION {{[bodyLength |-> Num(b), chunkLength |-> Num(c)] :
                         b \in BodyLengths(c)} : c \in ChunkLengths}

\* sizes of which at least one is no integer or is out of range
OddSizes ==
    {[bodyLength |-> b, chunkLength |-> c] :
        b \in {Num(100)},
        c \in {Num(CHUNK_MIN - 1), Num(0), Half(CHUNK_MIN), NaN, NegInfinity, Infinity}}
    \cup
    {[bodyLength |-> b, chunkLength |-> c] :
        b \in {Num(0 - 1), Half(100), NaN, NegInfinity, Infinity, Num(0)},
        c \in {Num(CHUNK_MIN), Infinity}}

Stamp1 == <<Str("20260101"), Str("T000000Z")>>
Stamp2 == <<Str("20260102"), Str("T120000Z")>>

TheCredentials == [accessKey |-> "AKID", secretKey |-> "secret",
                   regionName |-> "us-west-2", serviceName |-> "s3"]

S3Host == <<"s3", "us-west-2", "amazonaws", "com">>

BaseRequest == [method |-> "PUT", urlString |-> FALSE, host |-> S3Host,
                pathname |-> Chars("/key"), hasParams |-> FALSE, query |-> <<>>,
                hasHeaders |-> FALSE, headers |-> <<>>, body |-> NoBody,
                unsigned |-> FALSE]

WithHeaders(h) == [BaseRequest EXCEPT !.hasHeaders = TRUE, !.headers = h]

Requests ==
    { BaseRequest,
      [BaseRequest EXCEPT !.host = <<>>],
      [BaseRequest EXCEPT !.unsigned = TRUE],
      WithHeaders(<<[key |-> "X-Amz-Date", val |-> StrV(Stamp2)]>>),
      WithHeaders(<<[key |-> "Content-Encoding",
                     val |-> StrV(<<SP, Str("AWS-Chunked"), SP, COMMA, Str("gzip")>>)]>>),
      WithHeaders(<<[key |-> "content-encoding", val |-> StrV(Text("gzip"))]>>),
      WithHeaders(<<[key |-> "Content-Length", val |-> NumV(Num(5))]>>),
      WithHeaders(<<[key |-> "X-Amz-Decoded-Content-Length", val |-> NumV(Num(5))]>>),
      WithHeaders(<<[key |-> "content-length", val |-> NumV(Num(5))],
                    [key |-> "X-Amz-Date", val |-> StrV(Stamp2)]>>),
      WithHeaders(<<[key |-> "Authorization", val |-> StrV(Text("stale"))]>>) }

ArgsOf(z, st) == [credentials |-> TheCredentials, bodyLength |-> z.bodyLength,
                  chunkLength |-> z.chunkLength, set |-> st, now |-> Stamp1]

\* Every size with the plain requests, and every request with two sizes.
PlainRequests == {BaseRequest, [BaseRequest EXCEPT !.host = <<>>]}
FewSizes == {[bodyLength |-> Num(b), chunkLength |-> Num(CHUNK_MIN)] :
                b \in {0, CHUNK_MIN + 100}}
ChainInputs ==
    {[args |-> ArgsOf(z, st), request |-> r] :
        z \in ValidSizes \cup OddSizes, st \in BOOLEAN, r \in PlainRequests}
    \cup
    {[args |-> ArgsOf(z, st), request |-> r] :
        z \in FewSizes, st \in BOOLEAN, r \in Requests}

IdleArgs == [credentials |-> TheCredentials, bodyLength |-> Num(0),
             chunkLength |-> Num(CHUNK_MIN), set |-> FALSE, now |-> Stamp1]

\* The chunks a caller may hand to the chunk signer.
Sources == {"x", "y"}
CallLengths(c) == {1, 100, c - 1, c}
Chunks(c) ==
    {NoBody, BufferOf(EmptyBytes),
     Descriptor(HexOf(Sha256(Bytes("x", 0, 100))), 0)}
    \cup {BufferOf(Bytes(src, 0, n)) : src \in Sources, n \in CallLengths(c)}

NoCall == [outcome |-> "none", chunk |-> NoBody, err |-> "", frame |-> <<>>,
           before |-> NoClosure, expected |-> Num(0), prior |-> "none"]

\* No transform stream: the state before createS3PayloadSigner has returned.
NoStream == [state |-> "none", src |-> "", pending |-> EmptyBytes, length |-> 0,
             hash |-> EmptyBytes, output |-> <<>>, written |-> 0, sizes |-> <<>>,
             err |-> ""]

(***************************************************************************)
(* The state machine.                                                      *)
(***************************************************************************)
ChainInit(active, inputs) ==
    /\ \E f \in [active -> inputs] :
          /\ args = [c \in Chains |-> IF c \in active THEN f[c].args ELSE IdleArgs]
          /\ request = [c \in Chains |-> IF c \in active THEN f[c].request
                                         ELSE BaseRequest]
    /\ phase = [c \in Chains |-> "new"]
    /\ thrown = [c \in Chains |-> ""]
    /\ signCount = [c \in Chains |-> 0]
    /\ parameters = [c \in Chains |-> <<>>]
    /\ signer = [c \in Chains |-> NoClosure]
    /\ last = [c \in Chains |-> NoCall]
    /\ accepted = [c \in Chains |-> <<>>]

\* The caller calls signS3ChunkedRequest.
Create(c) ==
    /\ phase[c] = "new"
    /\ \E r \in {signS3ChunkedRequest(args[c], request[c])} :
       /\ phase' = [phase EXCEPT ![c] = IF r.err = "" THEN "ready" ELSE "threw"]
       /\ thrown' = [thrown EXCEPT ![c] = r.err]
       /\ request' = [request EXCEPT ![c] = r.request]
       /\ parameters' = [parameters EXCEPT ![c] = r.parameters]
       /\ signer' = [signer EXCEPT ![c] = r.closure]
       /\ signCount' = [signCount EXCEPT ![c] = r.signs]
    /\ UNCHANGED <<args, last, accepted, stream, direct>>

\* The closure's variables, the call's record and the history after the chunk
\* signer of chain c is called with `chunk`.
Call(c, chunk) ==
    \E r \in {chunkSigner(signer[c], chunk)} :
    /\ signer' = [signer EXCEPT ![c] = r.closure]
    /\ last' = [last EXCEPT ![c] =
                  [outcome |-> IF r.err = "" THEN "ok" ELSE "threw", chunk |-> chunk,
                   err |-> r.err, frame |-> r.frame, before |-> signer[c],
                   expected |-> r.length, prior |-> last[c].outcome]]
    /\ accepted' = [accepted EXCEPT ![c] =
                      IF r.err = ""
                      THEN Append(@, [chunk |-> chunk, frame |-> r.frame,
                                      lastSignature |-> signer[c].signature,
                                      signature |-> r.closure.signature])
                      ELSE @]
    /\ signCount' = [signCount EXCEPT ![c] = IF r.err = "" THEN @ + 1 ELSE @]

\* The caller calls the chunk signer directly.
SignerCall(c) ==
    /\ phase[c] = "ready"
    /\ Len(accepted[c]) < MaxCalls
    /\ \E chunk \in Chunks(IF IsInt(signer[c].chunkLength)
                             THEN signer[c].chunkLength.v ELSE CHUNK_MIN) :
          Call(c, chunk)
    /\ UNCHANGED <<args, request, phase, thrown, parameters, stream, direct>>

(***************************************************************************)
(* The signing transform stream (createS3PayloadSigner, dist/s3_chunked.js *)
(* lines 163-194). The stream's output is its byte stream: the characters  *)
(* of the pushed strings and the pushed bytes, adjacent runs of bytes      *)
(* joined.                                                                 *)
(***************************************************************************)
MaxWrites == 4      \* writes to one stream

\* Buffer.concat([a, b])
Cat(a, b) ==
    IF ByteLength(a) = 0 THEN b
    ELSE IF ByteLength(b) = 0 THEN a
    ELSE IF a[2] = b[2] /\ a[4] = b[3] THEN Bytes(a[2], a[3], b[4])
    ELSE <<"bytes", <<a, b>>, 0, ByteLength(a) + ByteLength(b)>>

\* data.slice(from, to), 0 <= from <= to
Slice(data, from, to) ==
    LET n == ByteLength(data)
        lo == IF from > n THEN n ELSE from
        hi == IF to > n THEN n ELSE to
    IN Bytes(data[2], data[3] + lo, data[3] + hi)

\* data.slice(from)
SliceFrom(data, from) == Slice(data, from, ByteLength(data))

\* A run of bytes in the output.
Raw(b) == [s |-> "@", x |-> b]

\* stream.push(string)
PushText(out, t) == out \o t

\* stream.push(buffer)
PushBytes(out, b) ==
    IF ByteLength(b) = 0 THEN out
    ELSE IF out # <<>> /\ out[Len(out)].s = "@"
    THEN SubSeq(out, 1, Len(out) - 1) \o <<Raw(Cat(out[Len(out)].x, b))>>
    ELSE Append(out, Raw(b))

\* The variables a stream callback works on: those of createS3PayloadSigner
\* (pending, length, hash), the pushed output, the chunk signer's closure and
\* the record of its calls; err is the exception the callback throws.
Work(c) ==
    [pending |-> stream.pending, length |-> stream.length, hash |-> stream.hash,
     output |-> stream.output, cl |-> signer[c], acc |-> accepted[c],
     last |-> last[c], signs |-> signCount[c], err |-> ""]

\* The work after the chunk signer was called with `chunk` and gave r.
Recorded(w, chunk, r) ==
    [w EXCEPT !.err = r.err,
              !.cl = r.closure,
              !.last = [outcome |-> IF r.err = "" THEN "ok" ELSE "threw",
                        chunk |-> chunk, err |-> r.err, frame |-> r.frame,
                        before |-> w.cl, expected |-> r.length,
                        prior |-> w.last.outcome],
              !.acc = IF r.err = ""
                      THEN Append(@, [chunk |-> chunk, frame |-> r.frame,
                                      lastSignature |-> w.cl.signature,
                                      signature |-> r.closure.signature])
                      ELSE @,
              !.signs = IF r.err = "" THEN @ + 1 ELSE @]

pushData(w, data) ==
    [w EXCEPT !.pending = Cat(@, data), !.hash = Cat(@, data),
              !.length = @ + ByteLength(data)]

\* The output with the pending bytes pushed before the string of the signer.
FlushOutputDataFirst(out, frame, pending) == PushText(PushBytes(out, pending), frame)

\* stream.push(signer(...)); pending.forEach(data => stream.push(data))
FlushOutput(out, frame, pending) == PushBytes(PushText(out, frame), pending)

\* flushData once the signer has returned or thrown
Flushed(w) ==
    IF w.err # "" THEN w
    ELSE [w EXCEPT !.output = FlushOutput(@, w.last.frame, w.pending),
                   !.pending = EmptyBytes, !.length = 0, !.hash = EmptyBytes]

\* The chunk handed to the signer with the length the signer expects.
DigestedAsExpected(w) == Descriptor(HexOf(Sha256(w.hash)), ExpectedChunk(w.cl).length.v)

\* hash.digest('hex') and length, as the chunk handed to the signer
Digested(w) == Descriptor(HexOf(Sha256(w.hash)), w.length)

flushData(w) ==
    LET Signed(v, d) ==
            CHOOSE f \in {Flushed(Recorded(v, d, r)) : r \in {chunkSigner(v.cl, d)}} : TRUE
        Hashed(v) == CHOOSE f \in {Signed(v, d) : d \in {Digested(v)}} : TRUE
    IN CHOOSE f \in {Hashed(v) : v \in {w}} : TRUE

\* The loop condition with > for >=.
LoopConditionStrict(length, dataLength, chunkLength) ==
    JsLt(chunkLength, Num(length + dataLength))

\* length + data.length >= chunkLength
LoopCondition(length, dataLength, chunkLength) ==
    \/ JsLt(chunkLength, Num(length + dataLength))
    \/ JsSame(Num(length + dataLength), chunkLength)

\* transform(data, _, callback)
RECURSIVE transform(_, _, _)
transform(w, chunkLength, data) ==
    IF w.err # "" THEN w
    ELSE IF LoopCondition(w.length, ByteLength(data), chunkLength)
    THEN CHOOSE t \in
            {transform(v, chunkLength, d) :
                v \in {flushData(pushData(w, Slice(data, 0, chunkLength.v - w.length)))},
                d \in {SliceFrom(data, chunkLength.v - w.length)}} : TRUE
    ELSE IF ByteLength(data) # 0 THEN pushData(w, data)
    ELSE w

\* this.push(signer())
Terminal(w) ==
    IF w.err # "" THEN w ELSE [w EXCEPT !.output = PushText(@, w.last.frame)]

\* final once the remainder, if there was one, has been flushed
Ended(w) ==
    IF w.err # "" THEN w
    ELSE CHOOSE f \in {Terminal(Recorded(w, NoBody, r)) : r \in {chunkSigner(w.cl, NoBody)}} : TRUE

\* final(callback)
final(w) == CHOOSE f \in {Ended(v) : v \in {IF w.length # 0 THEN flushData(w) ELSE w}} : TRUE

\* The sizes of the writes, and the most bytes written to one stream.
WriteSizes(c) == {0, 1, 100, c - 1, c, 2 * c + 100}
MaxWritten(c) == (MaxChunks + 1) * c + 100

\* sizes the stream is created with: the valid ones of one chunk length, and
\* sizes that are no integers
StreamSizes ==
    {[bodyLength |-> Num(b), chunkLength |-> Num(CHUNK_MIN)] : b \in BodyLengths(CHUNK_MIN)}
    \cup {[bodyLength |-> Num(100), chunkLength |-> Half(CHUNK_MIN)],
          [bodyLength |-> Num(0), chunkLength |-> Infinity],
          [bodyLength |-> Num(100), chunkLength |-> Infinity],
          [bodyLength |-> Infinity, chunkLength |-> Num(CHUNK_MIN)]}

StreamInputs == {[args |-> ArgsOf(z, FALSE), request |-> BaseRequest] : z \in StreamSizes}

\* The state after a stream callback: an exception leaves the stream in error.
Settle(c, w, written, sizes, state) ==
    /\ signer' = [signer EXCEPT ![c] = w.cl]
    /\ accepted' = [accepted EXCEPT ![c] = w.acc]
    /\ last' = [last EXCEPT ![c] = w.last]
    /\ signCount' = [signCount EXCEPT ![c] = w.signs]
    /\ stream' = [stream EXCEPT !.pending = w.pending, !.length = w.length,
                                !.hash = w.hash, !.output = w.output,
                                !.written = written, !.sizes = sizes,
                                !.err = w.err,
                                !.state = IF w.err # "" THEN "errored" ELSE state]

\* The caller calls createS3PayloadSigner; src names the bytes they will write.
CreateStream(c) ==
    /\ phase[c] = "new"
    /\ stream.state = "none"
    /\ \E r \in {signS3ChunkedRequest(args[c], request[c])} :
       /\ phase' = [phase EXCEPT ![c] = IF r.err = "" THEN "ready" ELSE "threw"]
       /\ thrown' = [thrown EXCEPT ![c] = r.err]
       /\ request' = [request EXCEPT ![c] = r.request]
       /\ parameters' = [parameters EXCEPT ![c] = r.parameters]
       /\ signer' = [signer EXCEPT ![c] = r.closure]
       /\ signCount' = [signCount EXCEPT ![c] = r.signs]
       /\ \E src \in Sources :
             stream' = IF r.err = ""
                       THEN [NoStream EXCEPT !.state = "open", !.src = src]
                       ELSE NoStream
    /\ UNCHANGED <<args, last, accepted, direct>>

\* The caller writes the next n bytes of the input to the stream.
Write(c) ==
    /\ stream.state = "open"
    /\ Len(stream.sizes) < MaxWrites
    /\ \E n \in WriteSizes(IF IsInt(args[c].chunkLength)
                           THEN args[c].chunkLength.v ELSE CHUNK_MIN) :
          /\ stream.written + n <= MaxWritten(IF IsInt(args[c].chunkLength)
                                              THEN args[c].chunkLength.v ELSE CHUNK_MIN)
          /\ \E w \in {transform(Work(c), args[c].chunkLength,
                                 Bytes(stream.src, stream.written, stream.written + n))} :
                Settle(c, w, stream.written + n, Append(stream.sizes, n), "open")
    /\ UNCHANGED <<args, request, phase, thrown, parameters, direct>>

\* The caller ends the stream.
End(c) ==
    /\ stream.state = "open"
    /\ \E w \in {final(Work(c))} :
          Settle(c, w, stream.written, stream.sizes, "ended")
    /\ UNCHANGED <<args, request, phase, thrown, parameters, direct>>

\* The bytes a driver that writes bodyLength bytes has still to write; a body
\* without end is written up to the most bytes of one stream.
Rest(c) ==
    IF IsInt(args[c].bodyLength) THEN args[c].bodyLength.v - stream.written
    ELSE MaxWritten(CHUNK_MIN) - stream.written

\* The sizes of the driver's next write: any size up to the rest, and the
\* whole rest in its last write.
DriverSizes(c) ==
    IF Len(stream.sizes) = MaxWrites - 1 THEN {Rest(c)}
    ELSE {n \in WriteSizes(CHUNK_MIN) \cup {Rest(c)} : n <= Rest(c)}

\* The driver writes the next n bytes of a body of bodyLength bytes.
DriverWrite(c) ==
    /\ stream.state = "open"
    /\ Len(stream.sizes) < MaxWrites
    /\ \E n \in DriverSizes(c) :
       \E w \in {transform(Work(c), args[c].chunkLength,
                            Bytes(stream.src, stream.written, stream.written + n))} :
           Settle(c, w, stream.written + n, Append(stream.sizes, n), "open")
    /\ UNCHANGED <<args, request, phase, thrown, parameters, direct>>

\* The driver ends the stream once it has written the body.
DriverEnd(c) ==
    /\ stream.state = "open"
    /\ IsInt(args[c].bodyLength) /\ Rest(c) = 0
    /\ \E w \in {final(Work(c))} :
          Settle(c, w, stream.written, stream.sizes, "ended")
    /\ UNCHANGED <<args, request, phase, thrown, parameters, direct>>

\* No function of makeSimpleCache called yet: key and value are undefined.
DirectIdle == cache = NoCache /\ input = Nothing /\ output = Nothing

Init == ChainInit({"A"}, ChainInputs) /\ stream = NoStream /\ DirectIdle

Next == Create("A") \/ SignerCall("A")

Spec == Init /\ [][Next]_vars

InitStream == ChainInit({"A"}, StreamInputs) /\ stream = NoStream /\ DirectIdle

NextStream == CreateStream("A") \/ Write("A") \/ End("A")

SpecStream == InitStream /\ [][NextStream]_vars

\* The stream under a driver that writes the body and ends the stream: the
\* stream calls transform for every write and final at the end, and the
\* driver of a stream that was created goes on until it has ended it.
NextDriver == CreateStream("A") \/ DriverWrite("A") \/ DriverEnd("A")

SpecDriver ==
    /\ InitStream /\ [][NextDriver]_vars
    /\ WF_vars(DriverWrite("A")) /\ WF_vars(DriverEnd("A"))

(***************************************************************************)
(* getSigningData.makeSimpleCache (core.js, dist/http.js lines 367-378).   *)
(* The secret key, the region and the service are strings; a date stamp is *)
(* a timestamp or its date alone.                                          *)
(***************************************************************************)
\* The arguments of the calls of the cached function.
Stamp1Late == <<Str("20260101"), Str("T235959Z")>>
CacheTuples ==
    {[a |-> a, b |-> b, c |-> c, d |-> d] :
        a \in {Stamp1, Stamp1Late, Stamp2, <<Str("20260102")>>},
        b \in {"K", "K/r"}, c \in {"r", "r/s", "s"}, d \in {"s", "t"}}

\* The caller calls the cached function with the tuple t.
CachedCall ==
    /\ \E t \in CacheTuples :
          /\ cache' = cachedGetSigningData(cache, t.a, t.b, t.c, t.d)
          /\ input' = [fn |-> "cached", a |-> t.a, b |-> t.b, c |-> t.c, d |-> t.d,
                       first |-> ~cache.has,
                       previous |-> IF input.fn = "cached"
                                    THEN [a |-> input.a, b |-> input.b,
                                          c |-> input.c, d |-> input.d]
                                    ELSE [a |-> t.a, b |-> t.b, c |-> t.c, d |-> t.d]]
          /\ output' = [fn |-> "cached",
                        value |-> cachedGetSigningData(cache, t.a, t.b, t.c, t.d).value,
                        derived |-> CacheMiss(cache, t.a, t.b, t.c, t.d),
                        previous |-> cache.value]
    /\ UNCHANGED <<args, request, phase, thrown, signCount, parameters, signer, last,
                   accepted, stream>>

\* No chain and no stream: the state of the calls of single functions.
ChainIdle == ChainInit({}, ChainInputs) /\ stream = NoStream

InitCache == ChainIdle /\ DirectIdle

NextCache == CachedCall

SpecCache == InitCache /\ [][NextCache]_vars

(***************************************************************************)
(* Two chunk chains of one caller, created with or without the option      *)
(* getSigningData set to one function of makeSimpleCache, their signer     *)
(* calls interleaved.                                                      *)
(***************************************************************************)
TwoCredentials ==
    { TheCredentials,
      [TheCredentials EXCEPT !.secretKey = "K/r", !.regionName = "s", !.serviceName = "t"],
      [TheCredentials EXCEPT !.secretKey = "K", !.regionName = "r/s", !.serviceName = "t"] }

TwoInputs ==
    {[args |-> [ArgsOf([bodyLength |-> Num(CHUNK_MIN + 100),
                        chunkLength |-> Num(CHUNK_MIN)], FALSE)
                   EXCEPT !.credentials = cr],
      request |-> BaseRequest] : cr \in TwoCredentials}

\* The chunks the caller of the two chains hands to a chunk signer.
TwoChunks == {NoBody, BufferOf(Bytes("x", 0, 100)), BufferOf(Bytes("x", 0, CHUNK_MIN))}

\* The caller calls signS3ChunkedRequest with the shared cached function as
\* options.getSigningData.
CreateCached(c) ==
    /\ phase[c] = "new"
    /\ \E r \in {signS3ChunkedRequestOpt(args[c], request[c],
                                         [cached |-> TRUE, cache |-> cache])} :
       /\ phase' = [phase EXCEPT ![c] = IF r.err = "" THEN "ready" ELSE "threw"]
       /\ thrown' = [thrown EXCEPT ![c] = r.err]
       /\ request' = [request EXCEPT ![c] = r.request]
       /\ parameters' = [parameters EXCEPT ![c] = r.parameters]
       /\ signer' = [signer EXCEPT ![c] = r.closure]
       /\ signCount' = [signCount EXCEPT ![c] = r.signs]
       /\ cache' = r.cache
    /\ UNCHANGED <<args, last, accepted, stream, input, output>>

\* The caller calls the chunk signer of one of the two chains.
SignerCallTwo(c) ==
    /\ phase[c] = "ready"
    /\ Len(accepted[c]) < MaxCalls
    /\ \E chunk \in TwoChunks : Call(c, chunk)
    /\ UNCHANGED <<args, request, phase, thrown, parameters, stream, direct>>

InitTwo == ChainInit(Chains, TwoInputs) /\ stream = NoStream /\ DirectIdle

NextTwo ==
    \/ Create("A") \/ Create("B") \/ CreateCached("A") \/ CreateCached("B")
    \/ SignerCallTwo("A") \/ SignerCallTwo("B")

SpecTwo == InitTwo /\ [][NextTwo]_vars

(***************************************************************************)
(* Direct calls of signRequestRaw. The state keeps the arguments and the   *)
(* outcome of the last call and of the call before it.                     *)
(***************************************************************************)
HostHeader == [key |-> "host", val |-> HostValue(S3Host)]
Stale(name, v) == [key |-> name, val |-> StrV(Text(v))]

RawHeaders ==
    { <<HostHeader>>,
      <<HostHeader, Stale("Authorization", "stale1")>>,
      <<HostHeader, Stale("Authorization", "stale2")>>,
      <<Stale("authorization", "stale1"), HostHeader>>,
      <<Stale("Authorization", "stale1"), HostHeader, Stale("authorization", "stale2")>>,
      <<HostHeader, [key |-> "X-Amz-Date", val |-> StrV(Stamp2)]>> }

Pair(k, v) == [key |-> Chars(k), val |-> Chars(v)]

RawQueries ==
    { <<>>,
      <<Pair("b", "2"), Pair("a", "1 é")>>,
      <<Pair("X-Amz-Signature", "00ff"), Pair("b", "2"), Pair("a", "1 é")>>,
      <<Pair("X-Amz-Signature", "11ee"), Pair("b", "2"), Pair("a", "1 é")>>,
      <<Pair("b", "2"), [key |-> Chars("X-Amz-Date"), val |-> Stamp2],
        Pair("X-Amz-Signature", "00ff"), Pair("X-Amz-Signature", "11ee")>> }

RawCallOf(q, h, o) ==
    [credentials |-> TheCredentials, method |-> "get", pathname |-> Chars("/a b/../c"),
     query |-> q, headers |-> h, body |-> NoBody, options |-> o, now |-> Stamp1]

\* Header mode with every header map, query mode with every query.
RawArgs ==
    {RawCallOf(<<Pair("b", "2"), Pair("a", "1 é")>>, h, NoOptions) : h \in RawHeaders}
    \cup
    {RawCallOf(<<>>, <<HostHeader>>, [NoOptions EXCEPT !.setContentHash = TRUE])}
    \cup
    {RawCallOf(q, <<HostHeader>>, [NoOptions EXCEPT !.query = TRUE]) : q \in RawQueries}
    \cup
    {RawCallOf(<<>>, <<HostHeader, Stale("Authorization", "stale1")>>,
               [NoOptions EXCEPT !.query = TRUE])}

NoOutcome == [err |-> "", result |-> <<>>]

\* The caller calls signRequestRaw with arguments a of the inputs.
RawCallFrom(inputs) ==
    /\ \E a \in inputs :
       \E r \in {signRequestRaw(a.credentials, a.method, a.pathname, a.query, a.headers,
                                a.body, a.options, a.now)} :
          /\ input' = [fn |-> "signRequestRaw", args |-> a,
                       previous |-> IF input.fn = "signRequestRaw" THEN input.args ELSE a]
          /\ output' = [fn |-> "signRequestRaw", err |-> r.err, result |-> r.result,
                        previous |-> IF output.fn = "signRequestRaw"
                                     THEN [err |-> output.err, result |-> output.result]
                                     ELSE NoOutcome]
    /\ UNCHANGED <<args, request, phase, thrown, signCount, parameters, signer, last,
                   accepted, stream, cache>>

RawCall == RawCallFrom(RawArgs)

InitRaw == ChainIdle /\ DirectIdle

NextRaw == RawCall

SpecRaw == InitRaw /\ [][NextRaw]_vars

(***************************************************************************)
(* Direct calls of signRequestRaw with a timestamp of the caller, in the   *)
(* x-amz-date header or the X-Amz-Date query parameter.                    *)
(***************************************************************************)
\* A timestamp, an ISO 8601 date with its separators, a timestamp without the
\* seconds and the Z, a word, a timestamp with a letter for a digit, and a
\* timestamp inside a longer string.
Timestamps ==
    { Stamp2,
      <<Str("2026-01-"), Str("02T12:00:00Z")>>,
      <<Str("20260102"), Str("T1200")>>,
      <<Str("tomorrow")>>,
      <<Str("2026010x"), Str("T120000Z")>>,
      <<Str("x2026010"), Str("2T120000Zy")>> }

StampArgs ==
    {RawCallOf(<<Pair("b", "2")>>,
               <<HostHeader, [key |-> name, val |-> StrV(t)]>>, NoOptions) :
        name \in {"x-amz-date", "X-Amz-Date"}, t \in Timestamps}
    \cup
    {RawCallOf(<<Pair("b", "2"), [key |-> Chars("X-Amz-Date"), val |-> t]>>,
               <<HostHeader>>, [NoOptions EXCEPT !.query = TRUE]) : t \in Timestamps}

StampCall == RawCallFrom(StampArgs)

InitStamp == ChainIdle /\ DirectIdle

NextStamp == StampCall

SpecStamp == InitStamp /\ [][NextStamp]_vars

(***************************************************************************)
(* Direct calls of signRequest and signS3Request. The state keeps the      *)
(* arguments of the last call and its outcome: what it returned or threw   *)
(* and the caller's request after it.                                      *)
(***************************************************************************)
SignRequests ==
    { BaseRequest,
      [BaseRequest EXCEPT !.host = <<>>],
      [BaseRequest EXCEPT !.urlString = TRUE, !.hasParams = TRUE,
                          !.query = <<Pair("a", "1")>>],
      [BaseRequest EXCEPT !.hasParams = TRUE,
                          !.query = <<Pair("b", "2"), Pair("X-Amz-Expires", "60")>>,
                          !.hasHeaders = TRUE,
                          !.headers = <<[key |-> "X-Amz-Date", val |-> StrV(Stamp2)]>>],
      [BaseRequest EXCEPT !.host = <<>>, !.hasHeaders = TRUE,
                          !.headers = <<Stale("Content-Encoding", "gzip"),
                                        Stale("content-encoding", "br")>>],
      [BaseRequest EXCEPT !.hasParams = TRUE, !.hasHeaders = TRUE,
                          !.headers = <<Stale("Authorization", "stale1")>>],
      [BaseRequest EXCEPT !.host = <<>>, !.hasParams = TRUE,
                          !.query = <<Pair("a", "1")>>] }

SignOptions == {[NoOptions EXCEPT !.set = st, !.query = q] : st \in BOOLEAN, q \in BOOLEAN}

SignCredentials == {TheCredentials,
                    [TheCredentials EXCEPT !.serviceName = "", !.regionName = ""]}

SignArgs == {[credentials |-> c, request |-> r, options |-> o] :
                c \in SignCredentials, r \in SignRequests, o \in SignOptions}

\* The call with the arguments a has ended with the outcome r.
SignEnds(fn, a, r) ==
    /\ input' = [fn |-> fn, credentials |-> a.credentials, request |-> a.request,
                 options |-> a.options]
    /\ output' = [fn |-> fn, err |-> r.err, result |-> r.result, host |-> r.host,
                  hasHeaders |-> r.hasHeaders, headers |-> r.headers,
                  hasParams |-> r.hasParams, query |-> r.query]
    /\ UNCHANGED <<args, request, phase, thrown, signCount, parameters, signer, last,
                   accepted, stream, cache>>

\* The caller calls signRequest.
SignCall ==
    \E a \in SignArgs :
    \E r \in {signRequest(a.credentials, a.request, a.options, Stamp1)} :
        SignEnds("signRequest", a, r)

\* The caller calls signS3Request.
S3Call ==
    \E a \in SignArgs :
    \E r \in {signS3Request(a.credentials, a.request, a.options, Stamp1)} :
        SignEnds("signS3Request", a, r)

InitSign == ChainIdle /\ DirectIdle

NextSign == SignCall \/ S3Call

SpecSign == InitSign /\ [][NextSign]_vars

(***************************************************************************)
(* Repeated calls of signRequest with `set` on one request object: every   *)
(* call after the first is given the request as the call before left it.   *)
(* The clock moves between the calls.                                      *)
(***************************************************************************)
MaxSignings == 3      \* calls of signRequest on one request

AgainRequests ==
    SignRequests \cup
    { [BaseRequest EXCEPT !.hasHeaders = TRUE,
                          !.headers = <<Stale("authorization", "stale1"),
                                        Stale("X-Amz-Content-Sha256", "stale2")>>],
      [BaseRequest EXCEPT !.hasParams = TRUE,
                          !.query = <<Pair("X-Amz-Signature", "00"), Pair("b", "2"),
                                      Pair("X-Amz-Date", "20260102T120000Z"),
                                      Pair("X-Amz-Algorithm", "old")>>] }

AgainOptions ==
    {[NoOptions EXCEPT !.set = TRUE, !.query = q, !.setContentHash = h] :
        q \in BOOLEAN, h \in BOOLEAN}

AgainArgs == {[credentials |-> c, request |-> r, options |-> o] :
                 c \in SignCredentials, r \in AgainRequests, o \in AgainOptions}

\* what a call left of the caller's request
Left(out) == [err |-> out.err, result |-> out.result, host |-> out.host,
              hasHeaders |-> out.hasHeaders, headers |-> out.headers,
              hasParams |-> out.hasParams, query |-> out.query]

\* The caller's request object after a call
RequestAfter(req, out) ==
    [req EXCEPT !.host = out.host, !.hasHeaders = out.hasHeaders,
                !.headers = out.headers, !.hasParams = out.hasParams,
                !.query = out.query]

\* The n-th call on a request has ended with the outcome r.
AgainEnds(a, n, now, r, before) ==
    /\ input' = [fn |-> "signRequest", credentials |-> a.credentials,
                 request |-> a.request, options |-> a.options, calls |-> n, now |-> now]
    /\ output' = [fn |-> "signRequest", err |-> r.err, result |-> r.result,
                  host |-> r.host, hasHeaders |-> r.hasHeaders, headers |-> r.headers,
                  hasParams |-> r.hasParams, query |-> r.query, previous |-> before]
    /\ UNCHANGED <<args, request, phase, thrown, signCount, parameters, signer, last,
                   accepted, stream, cache>>

\* The caller signs a request.
SignFirst ==
    \E a \in AgainArgs :
    \E r \in {signRequest(a.credentials, a.request, a.options, Stamp1)} :
        AgainEnds(a, 1, Stamp1, r, Nothing)

\* The caller signs the request again, as the call before left it.
SignAgain ==
    /\ input.fn = "signRequest"
    /\ input.calls < MaxSignings
    /\ \E now \in {Stamp1, Stamp2} :
       \E a \in {[credentials |-> input.credentials,
                  request |-> RequestAfter(input.request, output),
                  options |-> input.options]} :
       \E r \in {signRequest(a.credentials, a.request, a.options, now)} :
           AgainEnds(a, input.calls + 1, now, r, Left(output))

InitAgain == ChainIdle /\ DirectIdle

NextAgain == SignFirst \/ SignAgain

SpecAgain == InitAgain /\ [][NextAgain]_vars

(***************************************************************************)
(* Direct calls of signRequest with the hosts and credentials that decide  *)
(* how service, region and host are resolved.                              *)
(***************************************************************************)
ResolveHosts ==
    { <<>>, S3Host, <<"s3", "amazonaws", "com">>,
      <<"email", "eu-west-1", "amazonaws", "com">>,
      <<"bucket", "s3-us-west-2", "amazonaws", "com">>,
      <<"example", "com">> }

ResolveCredentials ==
    {[TheCredentials EXCEPT !.serviceName = sv, !.regionName = rg] :
        sv \in {"", "s3", "ses"}, rg \in {"", "eu-west-1"}}

ResolveArgs ==
    {[credentials |-> c, request |-> [BaseRequest EXCEPT !.host = h, !.method = m],
      options |-> [NoOptions EXCEPT !.query = q]] :
        c \in ResolveCredentials, h \in ResolveHosts, m \in {"", "PUT"}, q \in BOOLEAN}

\* The caller calls signRequest.
ResolveCall ==
    \E a \in ResolveArgs :
    \E r \in {signRequest(a.credentials, a.request, a.options, Stamp1)} :
        SignEnds("signRequest", a, r)

InitResolve == ChainIdle /\ DirectIdle

NextResolve == ResolveCall

SpecResolve == InitResolve /\ [][NextResolve]_vars

(***************************************************************************)
(* Direct calls of buildAuthorization and of the two parseAuthorization    *)
(* (dist/http.js and src/http.ts). A header that is parsed is the one the  *)
(* last call of buildAuthorization returned or one written by hand.        *)
(***************************************************************************)
AuthRecords ==
    {[algorithm |-> a, credential |-> c, signedHeaders |-> h, signature |-> g] :
        a \in {MAIN_ALGORITHM, <<>>, <<TAB>> \o Text("X"), Chars("A=B"), Chars("A B")},
        c \in {Text("AKID") \o <<SLASH>> \o Text("20260101"), <<>>, Chars("a=b c"),
               <<SP>> \o Text("a"), Text("a") \o <<COMMA>> \o Text("b")},
        h \in {Chars("host;x-amz-date"), Text("host") \o <<COMMA>> \o Text("date")},
        g \in {Bytes("x", 0, 1), Bytes("x", 0, 32), EmptyBytes}}

Field(name, value) == [name |-> name, value |-> value]
FieldC == Field("Credential", Text("AKID"))
FieldC2 == Field("Credential", Text("other"))
FieldH == Field("SignedHeaders", Text("host"))
FieldS == Field("Signature", HexOf(Bytes("x", 0, 32)))
FieldX == Field("Extra", Text("1"))

\* The values of the Signature field of the headers written by hand: no
\* character, an odd number of hexadecimal digits, hexadecimal digits in lower,
\* upper and mixed case, letters that are no hexadecimal digits, a character
\* that is no letter and no digit.
SignatureValues ==
    {<<>>, Chars("abc"), Chars("00ff"), Chars("00FF"), Chars("0aF1"), Chars("zz"),
     Chars("0g"), Chars("0-"), Chars("0")}

\* The lists of fields of the headers written by hand.
FieldLists ==
    { <<FieldC, FieldH, FieldS>>, <<FieldC, FieldS, FieldH>>, <<FieldH, FieldC, FieldS>>,
      <<FieldH, FieldS, FieldC>>, <<FieldS, FieldC, FieldH>>, <<FieldS, FieldH, FieldC>>,
      <<FieldC, FieldH>>, <<FieldC, FieldS>>, <<FieldH, FieldS>>, <<FieldS>>,
      <<FieldC, FieldH, FieldS, FieldX>>, <<FieldX, FieldC, FieldH, FieldS>>,
      <<FieldC, FieldX, FieldS>>,
      <<FieldC, FieldH, FieldS, FieldC2>>, <<FieldC2, FieldC, FieldH, FieldS>>,
      <<FieldC, FieldC2, FieldS>>, <<FieldS, FieldH, FieldS, FieldC>> }
    \cup {<<FieldC, FieldH, Field("Signature", v)>> : v \in SignatureValues}

\* `${algorithm} ${fields.join(', ')}` for fields written name=value
HeaderOf(algorithm, fields) ==
    algorithm \o <<SP>>
        \o Join([i \in 1..Len(fields) |-> Text(fields[i].name) \o <<EQ>> \o fields[i].value],
                <<COMMA, SP>>)

NoData == [algorithm |-> <<>>, credential |-> <<>>, signedHeaders |-> <<>>,
           signature |-> EmptyBytes]

\* The headers a caller parses: the header buildAuthorization has just returned
\* (built: its argument), or a header written by hand (fields: its fields).
ParsedHeaders ==
    (IF output.fn = "buildAuthorization"
     THEN {[header |-> output.header, isBuilt |-> TRUE, built |-> input.data,
            fields |-> <<>>]}
     ELSE {})
    \cup {[header |-> HeaderOf(MAIN_ALGORITHM, f), isBuilt |-> FALSE, built |-> NoData,
           fields |-> f] : f \in FieldLists}

\* The caller calls buildAuthorization.
BuildCall ==
    /\ \E x \in AuthRecords :
          /\ input' = [fn |-> "buildAuthorization", data |-> x]
          /\ output' = [fn |-> "buildAuthorization", header |-> buildAuthorization(x)]
    /\ UNCHANGED <<args, request, phase, thrown, signCount, parameters, signer, last,
                   accepted, stream, cache>>

\* A call of a parseAuthorization has returned or thrown r.
ParseEnds(fn, h, r) ==
    /\ input' = [fn |-> fn, header |-> h.header, isBuilt |-> h.isBuilt,
                 built |-> h.built, fields |-> h.fields]
    /\ output' = [fn |-> fn, err |-> r.err,
                  data |-> [algorithm |-> r.algorithm, credential |-> r.credential,
                            signedHeaders |-> r.signedHeaders,
                            signature |-> r.signature]]
    /\ UNCHANGED <<args, request, phase, thrown, signCount, parameters, signer, last,
                   accepted, stream, cache>>

\* The caller calls parseAuthorization of dist/http.js.
ParseCall ==
    \E h \in ParsedHeaders : \E r \in {parseAuthorization(h.header)} :
        ParseEnds("parseAuthorization", h, r)

\* The caller calls parseAuthorization of src/http.ts.
ParseSrcCall ==
    \E h \in ParsedHeaders : \E r \in {parseAuthorizationSrc(h.header)} :
        ParseEnds("parseAuthorizationSrc", h, r)

InitAuth == ChainIdle /\ DirectIdle

NextAuth == BuildCall \/ ParseCall \/ ParseSrcCall

SpecAuth == InitAuth /\ [][NextAuth]_vars

(***************************************************************************)
(* Direct calls of the two getCanonicalQuery (dist/http.js and             *)
(* src/http.ts). The state keeps the query and the result of the last call *)
(* and of the call of the same function before it.                         *)
(***************************************************************************)
QueryPairs == <<Pair("b", "2"), Pair("B", "1 é"), Pair("b", "10"), Pair("", "x")>>

\* Every order of every three of the four pairs, and queries with a pair twice.
Queries ==
    {q \in {<<QueryPairs[i], QueryPairs[j], QueryPairs[k]>> :
                i \in 1..4, j \in 1..4, k \in 1..4} :
        q[1] # q[2] /\ q[1] # q[3] /\ q[2] # q[3]}
    \cup
    { <<>>, <<Pair("", "x")>>, <<Pair("b", "2"), Pair("b", "2")>>,
      <<Pair("b", "2"), Pair("", "x"), Pair("b", "2"), Pair("B", "é")>>,
      <<Pair("B", "é"), Pair("b", "2"), Pair("b", "2"), Pair("", "x")>> }

NoString == [defined |-> FALSE, str |-> <<>>]

\* A call of a getCanonicalQuery with the query q has returned r.
QueryEnds(fn, q, r) ==
    /\ input' = [fn |-> fn, query |-> q, again |-> input.fn = fn,
                 previous |-> IF input.fn = fn THEN input.query ELSE q]
    /\ output' = [fn |-> fn, defined |-> r.defined, str |-> r.str,
                  previous |-> IF output.fn = fn
                               THEN [defined |-> output.defined, str |-> output.str]
                               ELSE NoString]
    /\ UNCHANGED <<args, request, phase, thrown, signCount, parameters, signer, last,
                   accepted, stream, cache>>

\* The caller calls getCanonicalQuery of dist/http.js.
QueryCall ==
    \E q \in Queries :
    \E r \in {[defined |-> TRUE, str |-> getCanonicalQuery(q)]} :
        QueryEnds("getCanonicalQuery", q, r)

\* The caller calls getCanonicalQuery of src/http.ts.
QuerySrcCall ==
    \E q \in Queries : \E r \in {getCanonicalQuerySrc(q)} :
        QueryEnds("getCanonicalQuerySrc", q, r)

InitQuery == ChainIdle /\ DirectIdle

NextQuery == QueryCall \/ QuerySrcCall

SpecQuery == InitQuery /\ [][NextQuery]_vars

(***************************************************************************)
(* Direct calls of getCanonicalHeaders. The state keeps the header map and *)
(* the result of the last call and of the call before it.                  *)
(***************************************************************************)
\* Spellings of the value 'a b' and a value without the space.
DateValues == { <<Str("a"), SP, Str("b")>>,
                <<SP, Str("a"), SP, SP, Str("b")>>,
                <<Str("a"), TAB, Str("b"), SP>>,
                <<Str("a"), TAB, SP, Str("b"), TAB>>,
                <<Str("a"), Str("b")>> }

HeaderMaps ==
    {<<[key |-> h, val |-> HostValue(S3Host)], [key |-> d, val |-> StrV(v)]>> :
        h \in {"Host", "host"}, d \in {"X-Amz-Date", "x-amz-date"}, v \in DateValues}
    \cup
    {<<[key |-> d, val |-> StrV(v)], [key |-> "Host", val |-> HostValue(S3Host)]>> :
        d \in {"X-Amz-Date", "x-amz-date"}, v \in DateValues}
    \cup
    { <<>>,
      <<[key |-> "Content-Length", val |-> NumV(Num(5))]>>,
      <<[key |-> "content-length", val |-> StrV(<<SP, Str("5")>>)]>>,
      <<[key |-> "Host", val |-> HostValue(S3Host)],
        [key |-> "host", val |-> HostValue(S3Host)]>>,
      <<[key |-> "x-amz-date", val |-> StrV(<<Str("a")>>)],
        [key |-> "host", val |-> HostValue(S3Host)],
        [key |-> "X-Amz-Date", val |-> StrV(<<Str("b")>>)]>> }

NoHeadersText == [err |-> "", block |-> <<>>, signed |-> <<>>]

\* The caller calls getCanonicalHeaders with the header map h.
HeadersCall ==
    /\ \E h \in HeaderMaps : \E r \in {getCanonicalHeadersText(h)} :
          /\ input' = [fn |-> "getCanonicalHeaders", headers |-> h,
                       again |-> input.fn = "getCanonicalHeaders",
                       previous |-> IF input.fn = "getCanonicalHeaders"
                                    THEN input.headers ELSE h]
          /\ output' = [fn |-> "getCanonicalHeaders", err |-> r.err,
                        block |-> r.block, signed |-> r.signed,
                        sets |-> getCanonicalHeaders(h),
                        previous |-> IF output.fn = "getCanonicalHeaders"
                                     THEN [err |-> output.err, block |-> output.block,
                                           signed |-> output.signed]
                                     ELSE NoHeadersText]
    /\ UNCHANGED <<args, request, phase, thrown, signCount, parameters, signer, last,
                   accepted, stream, cache>>

InitHeaders == ChainIdle /\ DirectIdle

NextHeaders == HeadersCall

SpecHeaders == InitHeaders /\ [][NextHeaders]_vars

(***************************************************************************)
(* Direct calls of getCanonicalURI.                                        *)
(***************************************************************************)
PathSegments == {"", ".", "..", "a", "b c", "%2E%2E", "%2e", "é"}

\* Paths of two segments, and paths of other lengths.
Paths ==
    {Chars("/" \o x \o "/" \o y) : x, y \in PathSegments}
    \cup
    {Chars(w) : w \in {"", "/", "a", "a/b", "/a/./b/../c", "/../../a/", "/a/b/c/../..",
                       "/a%2Fb/c", "/a//b///", "/a/b/../../../c/."}}

URIOptions == {[NoOptions EXCEPT !.dontNormalize = d, !.onlyEncodeOnce = e] :
                  d, e \in BOOLEAN}

\* The caller calls getCanonicalURI with the path p and the options o.
URICall ==
    /\ \E p \in Paths, o \in URIOptions : \E r \in {getCanonicalURI(p, o)} :
          /\ input' = [fn |-> "getCanonicalURI", pathName |-> p, options |-> o]
          /\ output' = [fn |-> "getCanonicalURI", uri |-> r]
    /\ UNCHANGED <<args, request, phase, thrown, signCount, parameters, signer, last,
                   accepted, stream, cache>>

InitURI == ChainIdle /\ DirectIdle

NextURI == URICall

SpecURI == InitURI /\ [][NextURI]_vars

(***************************************************************************)
(* Properties of the chunk signature chain.                                *)
(***************************************************************************)
Ready(c) == phase[c] = "ready"
\* the chain was created with integer sizes
Sized(c) == IsInt(args[c].bodyLength) /\ IsInt(args[c].chunkLength)
BodyOf(c) == args[c].bodyLength.v
ChunkOf(c) == args[c].chunkLength.v
AcceptedLengths(c) == [i \in 1..Len(accepted[c]) |-> ChunkLength(accepted[c][i].chunk)]

\* chunkLength repeated floor(b / cl) times, the rest if there is one, then 0
ChainSequence(b, cl) ==
    [i \in 1..(b \div cl) |-> cl] \o (IF b % cl > 0 THEN <<b % cl>> ELSE <<>>) \o <<0>>

IsPrefix(p, q) == Len(p) <= Len(q) /\ p = SubSeq(q, 1, Len(p))

\* the number of calls accepted before the latest call
AcceptedBefore(c) ==
    IF last[c].outcome = "ok" THEN Len(accepted[c]) - 1 ELSE Len(accepted[c])

\* C1: for integer bodyLength >= 0 and chunkLength >= 8192 the accepted calls
\* are always a prefix of: chunkLength repeated floor(bodyLength/chunkLength)
\* times, lastLength if > 0, then 0; the chain is complete exactly when the
\* whole sequence was accepted (floor(bodyLength/chunkLength) + (lastLength > 0
\* ? 1 : 0) + 1 calls), and a call is accepted exactly when its length is the
\* next element of that sequence.
C1_AcceptedSequence ==
    \A c \in Chains : Ready(c) /\ Sized(c) =>
        LET seq == ChainSequence(BodyOf(c), ChunkOf(c))
            k == AcceptedBefore(c)
        IN /\ IsPrefix(AcceptedLengths(c), seq)
           /\ signer[c].done <=> Len(accepted[c]) = Len(seq)
           /\ Len(seq) = (BodyOf(c) \div ChunkOf(c))
                         + (IF BodyOf(c) % ChunkOf(c) > 0 THEN 1 ELSE 0) + 1
           /\ BodyOf(c) = 0 => seq = <<0>>
           /\ last[c].outcome # "none" =>
                 (last[c].outcome = "ok" <=>
                     k < Len(seq) /\ ChunkLength(last[c].chunk) = seq[k + 1])

\* a chain of two full chunks and a short one has accepted [8192, 8192, 100, 0]
C1_Witness ==
    /\ Ready("A") /\ signer["A"].done
    /\ AcceptedLengths("A") = <<CHUNK_MIN, CHUNK_MIN, 100, 0>>
    /\ BodyOf("A") = 2 * CHUNK_MIN + 100

\* the expected length as the specification words it
SpecExpected(b, cl, bytesSigned) ==
    IF b - bytesSigned >= cl THEN cl
    ELSE IF bytesSigned # b THEN b - (b \div cl) * cl
    ELSE 0

\* C2: at every position before completion a call whose chunk length differs
\* from the expected length fails with the length-mismatch error; a call with
\* no data before all bytes were signed fails, and a call with data (of one
\* byte or more) when the terminal marker is expected fails.
C2_WrongLengthRejected ==
    \A c \in Chains :
        Ready(c) /\ Sized(c) /\ last[c].outcome # "none" /\ ~last[c].before.done =>
        LET at == last[c].before.dataCount.v
            exp == SpecExpected(BodyOf(c), ChunkOf(c), at)
            len == ChunkLength(last[c].chunk)
            mismatch == last[c].outcome = "threw" /\ last[c].err = "Unexpected chunk size"
        IN /\ last[c].expected = Num(exp)
           /\ len # exp => mismatch
           /\ last[c].chunk.t = "none" /\ at # BodyOf(c) => mismatch
           /\ len > 0 /\ exp = 0 => mismatch

\* a call without data was rejected in the middle of a body
C2_Witness ==
    /\ Ready("A") /\ Sized("A") /\ last["A"].outcome = "threw"
    /\ last["A"].chunk.t = "none"
    /\ last["A"].before.dataCount.v = CHUNK_MIN
    /\ BodyOf("A") = 2 * CHUNK_MIN + 100

\* C3: once the terminal-marker call has succeeded the chain is complete for
\* good: every later call, with or without data, fails with the
\* payload-is-complete error, and no step makes a complete chain incomplete.
C3_CompletedForGood ==
    /\ [](\A c \in Chains : Ready(c) /\ last[c].outcome # "none" /\ last[c].before.done =>
              /\ last[c].outcome = "threw"
              /\ last[c].err = "Payload is complete, no more calls are needed"
              /\ signer[c].done)
    /\ [][\A c \in Chains : signer[c].done => signer'[c].done /\ accepted'[c] = accepted[c]]_vars
    /\ [](\A c \in Chains : Ready(c) /\ Sized(c) /\ signer[c].done =>
              /\ accepted[c] # <<>>
              /\ ChunkLength(accepted[c][Len(accepted[c])].chunk) = 0)

\* a call with data was made on a complete chain
C3_Witness ==
    /\ Ready("A") /\ last["A"].before.done /\ last["A"].outcome = "threw"
    /\ last["A"].chunk.t = "buffer"

\* the length of a returned string: a signature is 64 hexadecimal characters
RECURSIVE TextLength(_)
TextLength(t) ==
    IF t = <<>> THEN 0
    ELSE (IF Head(t).s = "#" THEN Sha256HexLength ELSE Len(Head(t).s))
         + TextLength(Tail(t))

RECURSIVE FramesLength(_)
FramesLength(h) ==
    IF h = <<>> THEN 0 ELSE TextLength(Head(h).frame) + FramesLength(Tail(h))

\* C4: the content-length put in the returned parameters when the chain is
\* created (and never changed afterwards) is bodyLength plus the summed length
\* of the strings the signer returns over the complete accepted sequence.
C4_ContentLength ==
    /\ [](\A c \in Chains : Ready(c) /\ Sized(c) /\ signer[c].done =>
              Get(parameters[c], "content-length")
                  = NumV(Num(BodyOf(c) + FramesLength(accepted[c]))))
    /\ [][\A c \in Chains : Ready(c) => parameters'[c] = parameters[c]]_vars

\* a complete chain of four frames, with hex lengths of four, two and one digits
C4_Witness ==
    /\ Ready("A") /\ signer["A"].done /\ Len(accepted["A"]) = 4
    /\ BodyOf("A") = 2 * CHUNK_MIN + 100
    /\ Get(parameters["A"], "content-length").n.v > BodyOf("A")

\* C6: the string of the i-th accepted call is CRLF unless i = 1, the
\* lowercase hexadecimal chunk length, ';chunk-signature=', the new signature,
\* CRLF, and one more CRLF exactly when the chunk length is 0.
C6_FrameFormat ==
    \A c \in Chains : Ready(c) /\ Sized(c) =>
        \A i \in 1..Len(accepted[c]) :
            LET e == accepted[c][i]
                len == ChunkLength(e.chunk)
                hex == CASE len = 0 -> "0"
                         [] len = 100 -> "64"
                         [] len = CHUNK_MIN - 1 -> "1fff"
                         [] len = CHUNK_MIN -> "2000"
                         [] len = 65535 -> "ffff"
                         [] len = 65536 -> "10000"
                         [] OTHER -> Hex(len)
            IN e.frame = (IF i = 1 THEN <<>> ELSE <<CRLF>>)
                         \o <<Str(hex \o ";chunk-signature=")>> \o e.signature
                         \o <<CRLF>> \o (IF len = 0 THEN <<CRLF>> ELSE <<>>)

\* the first call of a chain with an empty body is the terminal marker
C6_Witness ==
    /\ Ready("A") /\ BodyOf("A") = 0 /\ signer["A"].done
    /\ Len(accepted["A"]) = 1
    /\ accepted["A"][1].frame[1].s = "0;chunk-signature="

\* the chunk signer of chain c has just been called and the call has ended
\* with the outcome o
Called(c, o) == last'[c] # last[c] /\ last'[c].outcome = o

\* C25: a chunk-signer call that fails changes none of bytesSigned,
\* lastSignature and completed, and the call that follows a failed call ends
\* as the same call made in place of the failed one: with the expected chunk
\* it succeeds, with the same frame and the same signature.
C25_FailedCallChangesNothing ==
    [][\A c \in Chains :
          /\ Called(c, "threw") =>
                /\ signer'[c].dataCount = signer[c].dataCount
                /\ signer'[c].signature = signer[c].signature
                /\ signer'[c].done = signer[c].done
          /\ (Ready(c) /\ last[c].outcome = "threw" /\ last'[c] # last[c]) =>
                LET chunk == last'[c].chunk
                    r == chunkSigner(last[c].before, chunk)
                    e == ExpectedChunk(last[c].before)
                IN /\ last'[c].err = r.err
                   /\ last'[c].frame = r.frame
                   /\ signer'[c] = r.closure
                   /\ (~last[c].before.done
                          /\ JsSame(Num(ChunkLength(chunk)), e.length)) =>
                         /\ last'[c].outcome = "ok"
                         /\ last'[c].frame # <<>>
                         /\ signer'[c].signature =
                               signS3Chunk(last[c].before.signature,
                                           last[c].before.signing,
                                           last[c].before.timestamp, chunk)]_vars

\* a chunk of data was accepted after a rejected call, in the middle of a
\* chain
C25_Witness ==
    /\ Ready("A") /\ Sized("A")
    /\ last["A"].outcome = "ok" /\ last["A"].prior = "threw"
    /\ last["A"].before.dataCount.v = CHUNK_MIN
    /\ ChunkLength(last["A"].chunk) > 0

\* a <= b
JsLe(a, b) == JsLt(a, b) \/ JsSame(a, b)

\* the integer n is a multiple of the chunk length cl (n % cl === 0; the
\* remainder of an integer and Infinity is the integer)
MultipleOf(n, cl) ==
    CASE IsInt(cl) /\ cl.v > 0 -> n % cl.v = 0
      [] cl = Infinity -> n = 0
      [] OTHER -> FALSE

\* C26: in every state of a chain bytesSigned is an integer from 0 to
\* bodyLength that is a multiple of chunkLength or is bodyLength, and a
\* completed chain has bytesSigned = bodyLength; no step makes bytesSigned
\* smaller, and no step accepts the terminal marker while bytesSigned is below
\* bodyLength.
C26_BytesSigned ==
    /\ [](\A c \in Chains : Ready(c) =>
              LET n == signer[c].dataCount
                  b == args[c].bodyLength
              IN /\ IsInt(n) /\ n.v >= 0 /\ JsLe(n, b)
                 /\ MultipleOf(n.v, args[c].chunkLength) \/ JsSame(n, b)
                 /\ signer[c].done => JsSame(n, b))
    /\ [][\A c \in Chains : Ready(c) =>
              /\ JsLe(signer[c].dataCount, signer'[c].dataCount)
              /\ (Called(c, "ok") /\ ChunkLength(last'[c].chunk) = 0) =>
                    ~JsLt(signer[c].dataCount, args[c].bodyLength)]_vars

\* a completed chain whose bytesSigned is bodyLength and no multiple of
\* chunkLength
C26_Witness ==
    /\ Ready("A") /\ Sized("A") /\ signer["A"].done
    /\ signer["A"].dataCount = Num(CHUNK_MIN + 100)
    /\ BodyOf("A") = CHUNK_MIN + 100 /\ ChunkOf("A") = CHUNK_MIN

(***************************************************************************)
(* Properties of the signatures of a chain.                                *)
(***************************************************************************)
\* the signature of the returned Authorization parameter: HMAC(key, string to sign)
SeedOf(c) == parseAuthorization(Get(parameters[c], "authorization").s).signature

\* the canonical request whose digest ends the string to sign of a signature
SignedCanonical(sig) == sig[3][Len(sig[3])].x[2][2]

\* SHA256(chunk) in hexadecimal: of the bytes of a buffer, of no bytes without
\* a chunk, or the hash a descriptor carries
ChunkHash(chunk) ==
    CASE chunk.t = "none" -> HexOf(Sha256(EmptyBytes))
      [] chunk.t = "buffer" -> HexOf(Sha256(chunk.bytes))
      [] OTHER -> chunk.hash

\* the chunk signature the specification describes
SpecChunkSignature(c, lastSignature, chunk) ==
    HexOf(signString(signer[c].signing.key,
        ALGORITHM_STREAMING \o <<NL>> \o signer[c].timestamp \o <<NL>>
        \o signer[c].signing.scope \o <<NL>>
        \o lastSignature \o <<NL>> \o EMPTY_HASH \o <<NL>> \o ChunkHash(chunk)))

\* the signatures of the accepted calls are chained from the Authorization
\* signature of the request
ChainedFromSeed(c) ==
    \A i \in 1..Len(accepted[c]) :
        /\ accepted[c][i].lastSignature =
              IF i = 1 THEN HexOf(SeedOf(c)) ELSE accepted[c][i - 1].signature
        /\ accepted[c][i].signature =
              SpecChunkSignature(c, accepted[c][i].lastSignature, accepted[c][i].chunk)

\* the Authorization signature is the header-mode signature of the request
\* with the body hash STREAMING-AWS4-HMAC-SHA256-PAYLOAD
SeedIsStreaming(c) ==
    /\ SeedOf(c) = signDigest(MAIN_ALGORITHM, HexOf(Sha256(SignedCanonical(SeedOf(c)))),
                              signer[c].timestamp, signer[c].signing)
    /\ SignedCanonical(SeedOf(c))[7] = PAYLOAD_STREAMING

\* C5: the signature of the k-th accepted call is the AWS4-HMAC-SHA256-PAYLOAD
\* signature of lastSignature, EMPTY_HASH and SHA256(chunk k), lastSignature
\* being the signature of call k-1 and, for k = 1, the signature of the
\* Authorization header of the request signed in header mode with the body
\* hash STREAMING-AWS4-HMAC-SHA256-PAYLOAD.
C5_SeedAndChain ==
    \A c \in Chains : Ready(c) => ChainedFromSeed(c) /\ SeedIsStreaming(c)

(***************************************************************************)
(* Properties of the validation of the sizes.                              *)
(***************************************************************************)
\* chunkLength is no integer or is below 8192, or bodyLength is no integer or
\* is negative
InvalidSizes(a) ==
    \/ ~IsInt(a.chunkLength) \/ a.chunkLength.v < CHUNK_MIN
    \/ ~IsInt(a.bodyLength) \/ a.bodyLength.v < 0

InvalidMessages == {"Invalid chunk length", "Invalid body length"}

\* C10: the creation of a chain fails when chunkLength is not an integer or is
\* below 8192 or bodyLength is not an integer or is negative, with nothing
\* signed and the caller's request as it was, and with sizes that are valid
\* (chunkLength = 8192 and bodyLength = 0 among them) it does not fail so.
C10_InvalidSizesRejected ==
    [][\A c \in Chains : phase[c] = "new" /\ phase'[c] # "new" =>
          IF InvalidSizes(args[c])
          THEN /\ phase'[c] = "threw"
               /\ thrown'[c] \in InvalidMessages
               /\ signCount'[c] = 0
               /\ request'[c] = request[c]
          ELSE thrown'[c] \notin InvalidMessages]_vars

\* the names of the header map h are unique after case-folding
UniqueFolded(h) ==
    \A i, j \in 1..Len(h) : toLowerCase(h[i].key) = toLowerCase(h[j].key) => i = j

\* C28: for a caller header map whose names are unique after case-folding,
\* signS3ChunkedRequest does not fail with the duplicate-header error, also
\* when the map holds Content-Length or X-Amz-Decoded-Content-Length in
\* another letter case: with valid sizes and a host the chain is created.
C28_NoDuplicateHeaders ==
    [][\A c \in Chains :
          (phase[c] = "new" /\ phase'[c] # "new" /\ UniqueFolded(request[c].headers)) =>
              /\ thrown'[c] # "Duplicate headers found"
              /\ (~InvalidSizes(args[c]) /\ request[c].host # <<>>) => phase'[c] = "ready"]_vars

(***************************************************************************)
(* Properties of the signing transform stream.                             *)
(***************************************************************************)
Streaming == stream.state \in {"open", "ended"}
Written == stream.written

\* the chunk signed for the bytes from..to-1 of the input
InputChunk(from, to) ==
    Descriptor(HexOf(Sha256(Bytes(stream.src, from, to))), to - from)

\* The calls a stream of chunks of cl bytes makes for the first n bytes of the
\* input: one for each full chunk; at the end of a body of n bytes also one
\* for the rest, if there is one, and the call without data.
InputCalls(cl, n, atEnd) ==
    [i \in 1..(n \div cl) |-> InputChunk((i - 1) * cl, i * cl)]
    \o (IF atEnd /\ n % cl > 0 THEN <<InputChunk(n - (n % cl), n)>> ELSE <<>>)
    \o (IF atEnd THEN <<NoBody>> ELSE <<>>)

\* the string that frames a chunk of len bytes as call i, with its signature
SpecFrame(i, len, signature) ==
    (IF i = 1 THEN <<>> ELSE <<CRLF>>)
    \o <<Str(ToString16(Num(len)) \o ";chunk-signature=")>> \o signature
    \o <<CRLF>> \o (IF len = 0 THEN <<CRLF>> ELSE <<>>)

\* The output for the calls `calls` from call i on, the bytes of the calls
\* before starting at `from` and the signature before being lastSignature.
RECURSIVE InputOutput(_, _, _, _, _)
InputOutput(c, calls, i, from, lastSignature) ==
    IF i > Len(calls) THEN <<>>
    ELSE SpecFrame(i, ChunkLength(calls[i]),
                   SpecChunkSignature(c, lastSignature, calls[i]))
         \o (IF ChunkLength(calls[i]) = 0 THEN <<>>
             ELSE <<Raw(Bytes(stream.src, from, from + ChunkLength(calls[i])))>>)
         \o InputOutput(c, calls, i + 1, from + ChunkLength(calls[i]),
                        SpecChunkSignature(c, lastSignature, calls[i]))

AcceptedChunks(c) == [i \in 1..Len(accepted[c]) |-> accepted[c][i].chunk]

\* C7: however the input is split into writes, the calls of the chunk signer
\* and the output are those of the bytes written so far alone: a call with
\* the hash of each full chunk of chunkLength bytes and, at the end of an
\* input of bodyLength bytes, a call for the rest if there is one and the call
\* without data; no split of an input of bodyLength bytes fails.
C7_SplitIndependent ==
    Sized("A") =>
        /\ Streaming =>
              /\ AcceptedChunks("A")
                    = InputCalls(ChunkOf("A"), Written, stream.state = "ended")
              /\ stream.output
                    = InputOutput("A", AcceptedChunks("A"), 1, 0, HexOf(SeedOf("A")))
              /\ stream.pending
                    = (IF stream.state = "ended" THEN EmptyBytes
                       ELSE Bytes(stream.src, Written - (Written % ChunkOf("A")), Written))
        /\ stream.state = "errored" => Written # BodyOf("A")

\* an input of two chunks and a rest written as 100, 8192 and 8192 bytes
C7_Witness ==
    /\ stream.state = "ended" /\ BodyOf("A") = 2 * CHUNK_MIN + 100
    /\ stream.sizes = <<100, CHUNK_MIN, CHUNK_MIN>>
    /\ Len(accepted["A"]) = 4

\* the output holds the frame of the terminal marker
HasTerminalFrame(out) == \E i \in 1..Len(out) : out[i] = Str("0;chunk-signature=")

\* C8: a stream that was written a number of bytes other than bodyLength fails
\* when it is ended, if not before, and its output never holds the terminal
\* marker frame.
C8_LengthMismatchFails ==
    /\ [](stream.state = "ended" => JsSame(Num(Written), args["A"].bodyLength))
    /\ [](HasTerminalFrame(stream.output) =>
              stream.state = "ended" /\ JsSame(Num(Written), args["A"].bodyLength))
    /\ [][stream.state = "open" /\ stream'.state # "open"
              /\ ~JsSame(Num(stream'.written), args["A"].bodyLength)
          => stream'.state = "errored" /\ stream'.err # ""
             /\ ~HasTerminalFrame(stream'.output)]_vars

\* streams failed by too few and by too many bytes
C8_Witness ==
    /\ stream.state = "errored" /\ BodyOf("A") = CHUNK_MIN + 100
    /\ stream.sizes = <<CHUNK_MIN, 1>>
    /\ Len(accepted["A"]) = 1

\* the output that is each accepted call's string followed by its bytes
RECURSIVE FramedOutput(_, _, _)
FramedOutput(acc, i, from) ==
    IF i > Len(acc) THEN <<>>
    ELSE acc[i].frame
         \o (IF ChunkLength(acc[i].chunk) = 0 THEN <<>>
             ELSE <<Raw(Bytes(stream.src, from, from + ChunkLength(acc[i].chunk)))>>)
         \o FramedOutput(acc, i + 1, from + ChunkLength(acc[i].chunk))

\* the bytes of the output with the strings removed
RECURSIVE Unframed(_)
Unframed(out) ==
    IF out = <<>> THEN EmptyBytes
    ELSE IF Head(out).s = "@" THEN Cat(Head(out).x, Unframed(Tail(out)))
    ELSE Unframed(Tail(out))

TerminalCalls(c) == {i \in 1..Len(accepted[c]) : ChunkLength(accepted[c][i].chunk) = 0}

\* C9: the output is, for each chunk in the order of the input, the string the
\* signer returned for it followed by the bytes of that chunk; the terminal
\* marker frame is in it once, last, and only when the stream has ended; the
\* output without the frames is the input read so far, and the whole input
\* when the stream has ended.
C9_FramesThenBytes ==
    stream.state # "none" =>
        /\ stream.output = FramedOutput(accepted["A"], 1, 0)
        /\ TerminalCalls("A") = (IF stream.state = "ended"
                                 THEN {Len(accepted["A"])} ELSE {})
        /\ stream.state = "ended" =>
              /\ accepted["A"] # <<>>
              /\ accepted["A"][Len(accepted["A"])].chunk = NoBody
              /\ Unframed(stream.output) = Bytes(stream.src, 0, Written)
              /\ SubSeq(stream.output,
                        Len(stream.output) - Len(accepted["A"][Len(accepted["A"])].frame) + 1,
                        Len(stream.output))
                    = accepted["A"][Len(accepted["A"])].frame
        /\ ByteLength(Unframed(stream.output)) <= Written
        /\ Unframed(stream.output)
              = Bytes(stream.src, 0, ByteLength(Unframed(stream.output)))

\* a stream that ended after a full chunk and a rest, written in three writes
C9_Witness ==
    /\ stream.state = "ended" /\ BodyOf("A") = CHUNK_MIN + 100
    /\ stream.sizes = <<1, CHUNK_MIN - 1, 100>>
    /\ Len(stream.output) > 6

\* the accepted calls of chain c with data of fewer bytes than chunkLength
ShortCalls(c) ==
    {i \in 1..Len(accepted[c]) :
        /\ ChunkLength(accepted[c][i].chunk) > 0
        /\ JsLt(Num(ChunkLength(accepted[c][i].chunk)), args[c].chunkLength)}

\* the stream has just handled a write
Wrote == stream'.sizes # stream.sizes

\* C27: after every write the stream has handled, fewer than chunkLength bytes
\* are buffered, and every signer call made while handling a write carries
\* exactly chunkLength bytes; a chunk shorter than chunkLength is signed only
\* when the stream is ended, and at most once.
C27_BufferBelowChunk ==
    /\ [](stream.state = "open" =>
              /\ JsLt(Num(stream.length), args["A"].chunkLength)
              /\ ByteLength(stream.pending) = stream.length
              /\ ShortCalls("A") = {})
    /\ [][Wrote =>
              /\ \A i \in (Len(accepted["A"]) + 1)..Len(accepted'["A"]) :
                    JsSame(Num(ChunkLength(accepted'["A"][i].chunk)), args["A"].chunkLength)
              /\ last'["A"] # last["A"] =>
                    JsSame(Num(ChunkLength(last'["A"].chunk)), args["A"].chunkLength)]_vars
    /\ [](Cardinality(ShortCalls("A")) <= 1)

\* a stream that signed a chunk while handling its second write, buffered the
\* rest, and signed the rest when it was ended
C27_Witness ==
    /\ stream.state = "ended" /\ ChunkOf("A") = CHUNK_MIN
    /\ stream.sizes = <<CHUNK_MIN - 1, CHUNK_MIN>>
    /\ Len(accepted["A"]) = 3
    /\ ShortCalls("A") = {2}

\* the signer calls made in a step that handles a write: the accepted ones and
\* the one that threw
CallsOfWrite ==
    Len(accepted'["A"]) - Len(accepted["A"])
        + (IF stream'.state = "errored" THEN 1 ELSE 0)

\* floor(n / chunkLength)
ChunksIn(n, chunkLength) ==
    CASE IsInt(chunkLength) /\ chunkLength.v > 0 -> n \div chunkLength.v
      [] OTHER -> 0

\* every chunk of the body is signed, the terminal marker is signed and emitted
\* once, and the chain is complete
AllSigned ==
    /\ stream.state = "ended" /\ signer["A"].done
    /\ Cardinality(TerminalCalls("A")) = 1
    /\ signer["A"].dataCount = args["A"].bodyLength
    /\ ByteLength(Unframed(stream.output)) = args["A"].bodyLength.v
    /\ HasTerminalFrame(stream.output)

\* C30: a stream whose driver writes bodyLength bytes, in any pattern of
\* writes, and then ends it, eventually has every chunk signed and the terminal
\* marker emitted once, with the chain complete; and the handling of a write
\* makes at most floor((buffered + written) / chunkLength) signer calls.
C30_DriverCompletes ==
    /\ (stream.state = "open" /\ IsInt(args["A"].bodyLength)) ~> AllSigned
    /\ [][Wrote => CallsOfWrite
                      <= ChunksIn(stream.length + (stream'.written - stream.written),
                                  args["A"].chunkLength)]_vars

(***************************************************************************)
(* Properties of the cache of signing data.                                *)
(***************************************************************************)
\* the 4-tuple of a call, its date cut to the first 8 characters
TupleOf(t) == <<Substring8(t.a), t.b, t.c, t.d>>

\* C11: every call of the cached function returns the key and scope that
\* getSigningData returns for its 4-tuple: a call whose 4-tuple (date cut to
\* 8 characters) differs from the previous call's re-derives and does not
\* receive the previous value, a call with the same 4-tuple receives it.
C11_CacheAgrees ==
    output.fn = "cached" =>
        /\ output.value = getSigningData(input.a, input.b, input.c, input.d)
        /\ ~input.first /\ TupleOf(input) # TupleOf(input.previous) =>
              output.derived /\ output.value # output.previous
        /\ ~input.first /\ TupleOf(input) = TupleOf(input.previous) =>
              ~output.derived /\ output.value = output.previous

(***************************************************************************)
(* Properties of signRequestRaw.                                           *)
(***************************************************************************)
\* the signature a call in the given mode returned
ReturnedSignature(result, isQuery) ==
    IF isQuery THEN FromHex(Get(result, "X-Amz-Signature").s)
    ELSE parseAuthorization(getHeader(result, "authorization").val).signature

\* h and g are the same header map but for the value of the header that will
\* carry the signature
HeadersButCarrier(h, g) ==
    /\ Len(h) = Len(g)
    /\ \A i \in 1..Len(h) :
          /\ h[i].key = g[i].key
          /\ h[i].key # getHeader(h, "authorization").key => h[i].val = g[i].val

\* p and q are the same query but for the values of X-Amz-Signature
QueryButCarrier(p, q) ==
    /\ Len(p) = Len(q)
    /\ \A i \in 1..Len(p) :
          /\ p[i].key = q[i].key
          /\ ~SameStr(p[i].key, Text("X-Amz-Signature")) => p[i].val = q[i].val

\* the calls a and b differ at most in the value that will carry the signature
ButCarrier(a, b) ==
    /\ a.options = b.options
    /\ IF a.options.query
       THEN a.headers = b.headers /\ QueryButCarrier(a.query, b.query)
       ELSE a.query = b.query /\ HeadersButCarrier(a.headers, b.headers)

\* a part of a canonical query that is the X-Amz-Signature parameter
IsSignaturePart(part) ==
    LET key == Chars("X-Amz-Signature=") IN
    Len(Flat(part)) >= Len(key) /\ SubSeq(Flat(part), 1, Len(key)) = key

\* the canonical request that a successful call signed
SignedRequestOf(out, isQuery) == SignedCanonical(ReturnedSignature(out.result, isQuery))

\* C12: the signature signRequestRaw returns does not depend on an earlier value
\* of the parameter that carries it: in header mode no Authorization header
\* (in any letter case) of the caller is among the canonical headers and the
\* signed headers, in query mode no X-Amz-Signature parameter is in the
\* canonical query, and two calls that differ only in that value return the
\* same signature.
C12_CarrierNotSigned ==
    (output.fn = "signRequestRaw" /\ output.err = "") =>
        LET isQuery == input.args.options.query
            creq == SignedRequestOf(output, isQuery)
        IN /\ ~isQuery => /\ "authorization" \notin creq[6]
                          /\ \A h \in creq[5] : h[1] # "authorization"
           /\ isQuery => \A i \in 1..Len(split(creq[4], AMP)) :
                            ~IsSignaturePart(split(creq[4], AMP)[i])
           /\ (ButCarrier(input.previous, input.args) /\ output.previous.result # <<>>)
                 => ReturnedSignature(output.result, isQuery)
                    = ReturnedSignature(output.previous.result, isQuery)

(***************************************************************************)
(* Properties of signRequest and signS3Request.                            *)
(***************************************************************************)
Signing == input.fn \in {"signRequest", "signS3Request"}

\* the caller's header map and search parameters are as before the call
HeadersUntouched ==
    output.hasHeaders = input.request.hasHeaders /\ output.headers = input.request.headers
QueryUntouched ==
    output.hasParams = input.request.hasParams /\ output.query = input.request.query

\* the host that a url object without host is given
PopulatedHost ==
    formatHost(IF input.credentials.serviceName = "" THEN "s3"
               ELSE input.credentials.serviceName, input.credentials.regionName)

\* C13 as stated: without `set` the caller's request is unchanged, its url
\* object's host included.
C13_Original ==
    (Signing /\ ~input.options.set) =>
        /\ HeadersUntouched /\ QueryUntouched
        /\ output.host = input.request.host

\* C13: without `set`, signRequest and signS3Request leave the caller's header
\* map and search parameters as they are and change nothing of the url but a
\* missing host of a url object, which is populated from serviceName and
\* regionName; with `set` a successful call merges the returned fields into
\* the header map (header mode) or the search parameters (query mode) and
\* leaves the other of the two as it is.
C13_SetIsOptIn ==
    Signing =>
        /\ ~input.options.set =>
              /\ HeadersUntouched /\ QueryUntouched
              /\ \/ output.host = input.request.host
                 \/ /\ input.request.host = <<>> /\ ~input.request.urlString
                    /\ output.host = PopulatedHost
        /\ (input.options.set /\ output.err = "") =>
              IF input.options.query
              THEN /\ HeadersUntouched
                   /\ output.hasParams
                   /\ output.query = QuerySetAll(input.request.query, output.result)
              ELSE /\ QueryUntouched
                   /\ output.hasHeaders
                   /\ output.headers = Spread(input.request.headers, output.result)

\* a call without `set` has returned its fields for a url object without host
C13_Witness ==
    /\ Signing /\ ~input.options.set /\ output.err = "" /\ output.result # <<>>
    /\ input.request.host = <<>> /\ output.host = PopulatedHost
    /\ input.request.hasParams /\ input.options.query

(***************************************************************************)
(* Properties of buildAuthorization and parseAuthorization.                *)
(***************************************************************************)
Parsing == input.fn \in {"parseAuthorization", "parseAuthorizationSrc"}

NoComma(t) == \A i \in 1..Len(Flat(t)) : Flat(t)[i] # COMMA
NoSpaceAround(t) == trim(t) = t

\* the conditions on credential, signedHeaders and signature of a well-formed
\* record
WellFormedFields(x) ==
    /\ NoComma(x.credential) /\ NoSpaceAround(x.credential)
    /\ NoComma(x.signedHeaders) /\ NoSpaceAround(x.signedHeaders)
    /\ ByteLength(x.signature) >= 1

\* well-formed as stated: an algorithm without spaces
WellFormedAsStated(x) ==
    /\ \A i \in 1..Len(Flat(x.algorithm)) : Flat(x.algorithm)[i] # SP
    /\ WellFormedFields(x)

\* well-formed: an algorithm of at least one character and without whitespace
WellFormed(x) ==
    /\ x.algorithm # <<>>
    /\ \A i \in 1..Len(Flat(x.algorithm)) : ~IsSpace(Flat(x.algorithm)[i])
    /\ WellFormedFields(x)

\* the parsed header is the one built from the record input.built, and parsing
\* returned that record
RoundTrip == output.err = "" /\ output.data = input.built

\* C14 as stated: the round trip of every record whose algorithm has no space
\* (and whose other fields are well-formed) returns the record.
C14_Original ==
    (Parsing /\ input.isBuilt /\ WellFormedAsStated(input.built)) => RoundTrip

\* C14: for every record x whose algorithm is not empty and has no whitespace,
\* whose credential and signedHeaders have no comma and no surrounding
\* whitespace and whose signature has at least one byte,
\* parseAuthorization(buildAuthorization(x)) returns a record equal to x in all
\* four fields.
C14_RoundTrip ==
    (Parsing /\ input.isBuilt /\ WellFormed(input.built)) => RoundTrip

\* the round trip of a record whose credential holds '=' and a space
C14_Witness ==
    /\ Parsing /\ input.isBuilt /\ WellFormed(input.built) /\ RoundTrip
    /\ input.built.credential = Chars("a=b c")
    /\ input.built.algorithm = Chars("A=B")
    /\ output.data.signature = Bytes("x", 0, 1)

\* the names of the fields of a header written by hand are the three names,
\* each once, in some order
ExactlyThree(fields) ==
    /\ Len(fields) = 3
    /\ \A n \in {"Credential", "SignedHeaders", "Signature"} :
          \E i \in 1..3 : fields[i].name = n

ValueOf(fields, n) == fields[CHOOSE i \in 1..Len(fields) : fields[i].name = n].value

\* every Signature field holds the hexadecimal digits of a signature
SignedAsBuilt(fields) ==
    \A i \in 1..Len(fields) : fields[i].name = "Signature" => fields[i].value = FieldS.value

\* C15: parseAuthorization accepts the three fields in any order, with their
\* values, and rejects every header whose fields are not exactly the three: a
\* missing field, an additional field, a repeated field.
C15_ExactlyThree ==
    (Parsing /\ ~input.isBuilt /\ SignedAsBuilt(input.fields)) =>
        IF ExactlyThree(input.fields)
        THEN /\ output.err = ""
             /\ output.data.credential = ValueOf(input.fields, "Credential")
             /\ output.data.signedHeaders = ValueOf(input.fields, "SignedHeaders")
             /\ HexOf(output.data.signature) = ValueOf(input.fields, "Signature")
        ELSE output.err # ""

\* the hexadecimal digits, in both letter cases
HexadecimalDigits ==
    {"0", "1", "2", "3", "4", "5", "6", "7", "8", "9",
     "a", "b", "c", "d", "e", "f", "A", "B", "C", "D", "E", "F"}

\* v is a non-empty, even-length string of hexadecimal digits
IsHexadecimal(v) ==
    \/ IsHexTerm(v)
    \/ /\ Len(Flat(v)) > 0 /\ Len(Flat(v)) % 2 = 0
       /\ \A i \in 1..Len(Flat(v)) :
             ~IsTerm(Flat(v)[i]) /\ Flat(v)[i].s \in HexadecimalDigits

\* C24: a header with the three fields is accepted exactly when its Signature
\* field is a non-empty, even-length string of hexadecimal digits, and fails
\* with an error for every other Signature value.
C24_SignatureIsHex ==
    (Parsing /\ ~input.isBuilt /\ ExactlyThree(input.fields)) =>
        (output.err = "" <=> IsHexadecimal(ValueOf(input.fields, "Signature")))

(***************************************************************************)
(* Properties of getCanonicalQuery.                                        *)
(***************************************************************************)
Querying == input.fn \in {"getCanonicalQuery", "getCanonicalQuerySrc"}

\* the orders of n things
Orders(n) == {f \in [1..n -> 1..n] : \A i, j \in 1..n : f[i] = f[j] => i = j}

\* q holds the pairs of p, in some order
Permuted(p, q) ==
    /\ Len(p) = Len(q)
    /\ \E f \in Orders(Len(p)) : q = [i \in 1..Len(p) |-> p[f[i]]]

\* the pairs of a query whose key is not the empty string
NamedPairs(q) == SelectSeq(q, LAMBDA e : e.key # <<>>)

\* the pair e is after the pair d: its key is greater in code units, or the
\* keys are equal and its value is greater
PairAfter(d, e) ==
    \/ StrLess(d.key, e.key)
    \/ d.key = e.key /\ StrLess(d.val, e.val)

\* the pairs in ascending order of key and, under a key, of value
Ascending(q) ==
    LET f == CHOOSE g \in Orders(Len(q)) :
                \A i, j \in 1..Len(q) : i < j => ~PairAfter(q[g[j]], q[g[i]])
    IN [i \in 1..Len(q) |-> q[f[i]]]

\* escapedKey=escapedValue of a pair
PartOf(e) == escape(e.key) \o <<EQ>> \o escape(e.val)

\* the parts of a canonical query
PartsOf(str) == IF str = <<>> THEN <<>> ELSE split(str, AMP)

\* C16: getCanonicalQuery returns the same for every order of the pairs of a
\* query; the string it returns has the parts of the pairs with a key in
\* ascending code-unit order of the keys and, under each key, of the values.
C16_OrderIndependent ==
    Querying =>
        /\ (input.again /\ Permuted(input.previous, input.query)) =>
              /\ output.defined = output.previous.defined
              /\ output.str = output.previous.str
        /\ output.defined =>
              PartsOf(output.str)
              = [i \in 1..Len(NamedPairs(input.query)) |->
                    PartOf(Ascending(NamedPairs(input.query))[i])]

\* two calls with the same pairs in another order, keys that differ in case
\* only and values whose order as numbers is not their order as strings
C16_Witness ==
    /\ Querying /\ input.again /\ input.previous # input.query
    /\ Permuted(input.previous, input.query)
    /\ output.defined /\ output.str = output.previous.str
    /\ PartsOf(output.str) = <<PartOf(Pair("B", "1 é")), PartOf(Pair("b", "10")),
                               PartOf(Pair("b", "2"))>>

\* the number of times x is in the sequence
Count(seq, x) == Cardinality({i \in 1..Len(seq) : seq[i] = x})

\* C17: the result of getCanonicalQuery is a string, and every pair of the
\* query with a non-empty key is in it as often as it is in the query, whether
\* or not the query holds an empty key; the pairs with the empty key are not
\* in it.
C17_OnlyEmptyKeysDropped ==
    Querying =>
        /\ output.defined
        /\ Len(PartsOf(output.str)) = Len(NamedPairs(input.query))
        /\ \A i \in 1..Len(input.query) :
              input.query[i].key # <<>> =>
                 Count(PartsOf(output.str), PartOf(input.query[i]))
                 = Count(input.query, input.query[i])

(***************************************************************************)
(* Properties of getCanonicalHeaders.                                      *)
(***************************************************************************)
CallingHeaders == input.fn = "getCanonicalHeaders"

\* the runs of characters of a value between its whitespace
RECURSIVE WordsOf(_)
WordsOf(v) ==
    IF v = <<>> THEN <<>>
    ELSE IF IsSpace(Head(v)) THEN WordsOf(Tail(v))
    ELSE LET rest == WordsOf(Tail(v)) IN
         IF Len(v) > 1 /\ ~IsSpace(v[2])
         THEN <<<<Head(v)>> \o Head(rest)>> \o Tail(rest)
         ELSE <<<<Head(v)>>>> \o rest

\* the header maps g and h differ only in the case of their names and in the
\* whitespace around and between the words of their values
SameButCaseAndSpace(g, h) ==
    /\ Len(g) = Len(h)
    /\ \A i \in 1..Len(g) :
          /\ toLowerCase(g[i].key) = toLowerCase(h[i].key)
          /\ WordsOf(normalizeValue(g[i].val)) = WordsOf(normalizeValue(h[i].val))

\* the lines of a canonical headers block, each without its line feed
LinesOf(block) ==
    IF block = <<>> THEN <<>>
    ELSE split(SubSeq(block, 1, Len(block) - 1), LF)

\* the value v in the canonical headers: its words with one space between them
Squeezed(v) == Join(WordsOf(v), <<SP>>)

\* C18: for two header maps that differ only in the case of the names and in
\* whitespace around and between the words of the values, getCanonicalHeaders
\* returns the same block and the same signed headers; the signed headers are
\* the lowercased names in ascending order and the block has, in this order,
\* the line name:value of every header with the value trimmed and its
\* whitespace runs collapsed to one space.
C18_CaseAndSpaceIgnored ==
    CallingHeaders =>
        /\ (input.again /\ SameButCaseAndSpace(input.previous, input.headers)) =>
              /\ output.err = output.previous.err
              /\ output.block = output.previous.block
              /\ output.signed = output.previous.signed
        /\ output.err = "" =>
              LET names == IF output.signed = <<>> THEN <<>>
                           ELSE split(output.signed, SEMICOLON)
              IN /\ Len(names) = Len(input.headers)
                 /\ \A i \in 1..Len(input.headers) :
                       \E j \in 1..Len(names) :
                          /\ names[j] = Text(toLowerCase(input.headers[i].key))
                          /\ LinesOf(output.block)[j]
                             = names[j] \o <<COLON>>
                               \o Squeezed(normalizeValue(input.headers[i].val))
                 /\ \A j \in 1..(Len(names) - 1) : StrLess(names[j], names[j + 1])
                 /\ Len(LinesOf(output.block)) = Len(names)

\* two calls with maps that differ in the case of both names and in the
\* whitespace of a value have returned the same two strings
C18_Witness ==
    /\ CallingHeaders /\ input.again
    /\ SameButCaseAndSpace(input.previous, input.headers)
    /\ Len(input.headers) = 2
    /\ input.previous[1].key = "Host" /\ input.headers[1].key = "host"
    /\ input.previous[2].key = "X-Amz-Date" /\ input.headers[2].key = "x-amz-date"
    /\ input.previous[2].val = StrV(<<Str("a"), TAB, SP, Str("b"), TAB>>)
    /\ input.headers[2].val = StrV(<<SP, Str("a"), SP, SP, Str("b")>>)
    /\ output.err = "" /\ output.block = output.previous.block
    /\ output.signed = <<Str("host"), SEMICOLON, Str("x-amz-date")>>
    /\ LinesOf(output.block)[2] = <<Str("x-amz-date"), COLON, Str("a"), SP, Str("b")>>

\* two names of the header map are equal after lowercasing
SameNameTwice(h) ==
    \E i, j \in 1..Len(h) : i < j /\ toLowerCase(h[i].key) = toLowerCase(h[j].key)

\* C19: a signing operation fails whenever two names of its header map are
\* equal after lowercasing; it never signs with one of the two values.
C19_DuplicatesRejected ==
    (input.fn = "signRequestRaw" /\ SameNameTwice(input.args.headers)) =>
        output.err # ""

(***************************************************************************)
(* Properties of getCanonicalURI.                                          *)
(***************************************************************************)
CallingURI == input.fn = "getCanonicalURI"

\* the percent-decoded segments of a path
DecodedSegments(pathName) ==
    LET Decode(segments) == [i \in 1..Len(segments) |-> unescape(segments[i])]
    IN Decode(split(pathName, SLASH))

\* a segment as it is in the result: encoded once or twice
EncodedSegment(segment, options) ==
    IF options.onlyEncodeOnce THEN escape(segment) ELSE escape(escape(segment))

\* a segment that names nothing: empty, '.' or '..'
IsDots(segment) == segment \in {<<>>, Chars("."), Chars("..")}

\* the sequence without its i-th and, if also is true, its (i-1)-th element
Without(seq, i, also) ==
    SubSeq(seq, 1, IF also THEN i - 2 ELSE i - 1) \o SubSeq(seq, i + 1, Len(seq))

\* Path resolution by rewriting: an empty or '.' segment goes; the first '..'
\* goes with the name before it, or alone at the root.
RECURSIVE Resolved(_)
Resolved(segments) ==
    LET idle == {i \in 1..Len(segments) : segments[i] \in {<<>>, Chars(".")}}
        up == {i \in 1..Len(segments) : segments[i] = Chars("..")}
        first(set) == CHOOSE i \in set : \A j \in set : i <= j
    IN IF idle # {} THEN Resolved(Without(segments, first(idle), FALSE))
       ELSE IF up # {} THEN Resolved(Without(segments, first(up), first(up) > 1))
       ELSE segments

\* C20: with normalization, the result of getCanonicalURI starts with '/', its
\* segments are the encoded segments of the resolved path (decoded first; no
\* empty, '.' or '..' segment is left, a '..' at the root is ignored), and it
\* ends with '/' exactly when the last decoded segment of the input is empty,
\* '.' or '..'; /a/./b/../c gives /a/c. Without normalization the result has
\* every decoded segment of the input, encoded, at its place.
C20_Normalized ==
    CallingURI =>
        LET out == split(output.uri, SLASH)
            d == DecodedSegments(input.pathName)
            n == Len(out)
        IN IF input.options.dontNormalize
           THEN /\ n = Len(d)
                /\ \A i \in 1..n : out[i] = EncodedSegment(d[i], input.options)
           ELSE /\ n >= 2 /\ out[1] = <<>>
                /\ \A i \in 2..(n - 1) : ~IsDots(out[i])
                /\ out[n] \notin {Chars("."), Chars("..")}
                /\ out[n] = <<>> <=> IsDots(d[Len(d)])
                /\ LET names == Resolved(d) IN
                   /\ SubSeq(out, 2, Len(names) + 1)
                      = [i \in 1..Len(names) |-> EncodedSegment(names[i], input.options)]
                   /\ n \in {Len(names) + 1, Len(names) + 2}
                /\ input.pathName = Chars("/a/./b/../c") => output.uri = Chars("/a/c")

\* /a/./b/../c has been resolved to /a/c
C20_Witness ==
    /\ CallingURI /\ ~input.options.dontNormalize
    /\ input.pathName = Chars("/a/./b/../c") /\ output.uri = Chars("/a/c")

(***************************************************************************)
(* Properties of the resolution of service, region and host.               *)
(***************************************************************************)
\* The service and the region that a host of amazonaws.com names.
Named ==
    [h \in { S3Host, <<"s3", "amazonaws", "com">>, <<"s3", "eu-west-1", "amazonaws", "com">>,
             <<"email", "amazonaws", "com">>, <<"email", "eu-west-1", "amazonaws", "com">>,
             <<"bucket", "s3-us-west-2", "amazonaws", "com">> } |->
        [serviceName |-> IF h[1] = "email" THEN "ses" ELSE "s3",
         regionName |-> IF h[2] = "eu-west-1" THEN "eu-west-1"
                        ELSE IF h[2] \in {"us-west-2", "s3-us-west-2"} THEN "us-west-2"
                        ELSE "us-east-1"]]

\* the credential of the returned parameters: access key, date, region,
\* service and 'aws4_request'
CredentialOf(result, isQuery) ==
    split(IF isQuery THEN Get(result, "X-Amz-Credential").s
          ELSE parseAuthorization(getHeader(result, "authorization").val).credential,
          SLASH)

\* the call has signed for the service and the region, with the host header
SignedFor(serviceName, regionName, host) ==
    /\ output.err = "" /\ output.result # <<>>
    /\ SameStr(CredentialOf(output.result, input.options.query)[3], Text(regionName))
    /\ SameStr(CredentialOf(output.result, input.options.query)[4], Text(serviceName))
    /\ <<"host", HostValue(host).s>>
         \in SignedRequestOf(output, input.options.query)[5]

\* the call has thrown and has returned no parameters
NothingSigned == output.err # "" /\ output.result = <<>>

\* the value, or the other one when it is missing
Or(value, other) == IF value = "" THEN other ELSE value

\* C21: signRequest with a host and without serviceName or regionName signs
\* for the values the host names where they are missing and keeps the ones
\* given; without a host and with a serviceName it signs for that service and
\* the region given or us-east-1, with a host that names them; with neither, or
\* with a host that names nothing when a value is missing, it throws and
\* returns no signature.
C21_Resolution ==
    (input.fn = "signRequest") =>
        LET c == input.credentials
            h == input.request.host
        IN IF h = <<>>
           THEN IF c.serviceName = "" THEN NothingSigned
                ELSE /\ output.host \in DOMAIN Named
                     /\ Named[output.host]
                        = [serviceName |-> c.serviceName,
                           regionName |-> Or(c.regionName, "us-east-1")]
                     /\ SignedFor(c.serviceName, Or(c.regionName, "us-east-1"), output.host)
           ELSE /\ output.host = h
                /\ IF c.serviceName # "" /\ c.regionName # ""
                   THEN SignedFor(c.serviceName, c.regionName, h)
                   ELSE IF h \notin DOMAIN Named THEN NothingSigned
                   ELSE SignedFor(Or(c.serviceName, Named[h].serviceName),
                                  Or(c.regionName, Named[h].regionName), h)

\* a call without a host has signed for ses in us-east-1 with the host
\* email.amazonaws.com
C21_Witness ==
    /\ input.fn = "signRequest" /\ input.request.host = <<>>
    /\ input.credentials.serviceName = "ses" /\ input.credentials.regionName = ""
    /\ output.host = <<"email", "amazonaws", "com">>
    /\ SignedFor("ses", "us-east-1", output.host)

(***************************************************************************)
(* Properties of two chunk chains.                                         *)
(***************************************************************************)
\* What the creation of a chain returns when no other chain exists.
AloneChains == [i \in TwoInputs |-> signS3ChunkedRequest(i.args, i.request)]
Alone(c) == AloneChains[[args |-> args[c], request |-> request[c]]]

\* The frames and the closure of a chunk signer after the calls with the
\* chunks, all of them accepted.
RECURSIVE AloneRun(_, _)
AloneRun(cl, chunks) ==
    IF chunks = <<>> THEN [frames |-> <<>>, closure |-> cl]
    ELSE LET r == chunkSigner(cl, Head(chunks))
             rest == AloneRun(r.closure, Tail(chunks))
         IN [frames |-> <<r.frame>> \o rest.frames, closure |-> rest.closure]

\* the frames of the accepted calls of a chain
AcceptedFrames(c) == [i \in 1..Len(accepted[c]) |-> accepted[c][i].frame]

\* C22: whatever the other chain has done, a chain has returned the parameters,
\* has accepted and rejected the calls and has returned the frames that it
\* would have alone, also when both were created with the shared cache.
C22_Independent ==
    \A c \in Chains :
        /\ phase[c] = "threw" <=> (phase[c] # "new" /\ Alone(c).err # "")
        /\ phase[c] = "ready" =>
              LET run == AloneRun(Alone(c).closure, AcceptedChunks(c)) IN
              /\ parameters[c] = Alone(c).parameters
              /\ AcceptedFrames(c) = run.frames
              /\ signer[c] = run.closure
              /\ last[c].outcome = "threw" =>
                    chunkSigner(run.closure, last[c].chunk).err = last[c].err

(***************************************************************************)
(* Properties of signing a request again.                                  *)
(***************************************************************************)
\* no two pairs of the query have the same name
UniqueNames(q) == \A i, j \in 1..Len(q) : SameStr(q[i].key, q[j].key) => i = j

\* the call was made on a request that a successful call had left
SignedAgain ==
    /\ input.fn = "signRequest" /\ input.calls > 1
    /\ output.previous.err = ""

\* C29: with `set`, a call of signRequest on the request a successful call has
\* left succeeds and returns the signature that call returned, whatever the
\* clock says, and leaves the host, the header map and the search parameters
\* as that call left them; the names signing adds are there once.
C29_Idempotent ==
    SignedAgain =>
        LET isQuery == input.options.query
            first == output.previous
        IN /\ output.err = ""
           /\ ReturnedSignature(output.result, isQuery)
                 = ReturnedSignature(first.result, isQuery)
           /\ SignedRequestOf(output, isQuery) = SignedRequestOf(first, isQuery)
           /\ output.host = first.host
           /\ output.hasHeaders = first.hasHeaders /\ output.headers = first.headers
           /\ output.hasParams = first.hasParams /\ output.query = first.query
           /\ UniqueFolded(output.headers)
           /\ isQuery => \A k \in {"X-Amz-Date", "X-Amz-Algorithm", "X-Amz-Credential",
                                     "X-Amz-SignedHeaders", "X-Amz-Signature"} :
                             Len(QueryGetAll(output.query, Text(k))) = 1

\* a request without timestamp signed a second time after the clock has moved,
\* in header mode
C29_Witness ==
    /\ SignedAgain /\ input.calls = 2 /\ input.now = Stamp2
    /\ ~input.options.query /\ output.err = ""
    /\ getHeader(output.previous.result, "x-amz-date").val = Stamp1
    /\ getHeader(output.headers, "x-amz-date").val = Stamp1

(***************************************************************************)
(* Properties of the timestamp of a request.                               *)
(***************************************************************************)
Digits == {HexDigits[i] : i \in 1..10}

\* the string is 8 digits, 'T', 6 digits and 'Z'
IsTimestamp(t) ==
    LET c == Flat(t) IN
    /\ Len(c) = 16
    /\ \A i \in (1..8) \cup (10..15) : c[i].s \in Digits
    /\ c[9].s = "T" /\ c[16].s = "Z"

\* the timestamp the caller gave with the request
GivenTimestamp(a) ==
    IF a.options.query THEN QueryGet(a.query, Text("X-Amz-Date"))
    ELSE getHeader(a.headers, "x-amz-date").val

\* C23: signing a request whose x-amz-date header or X-Amz-Date query
\* parameter is not 8 digits, 'T', 6 digits, 'Z' fails with an error.
C23_TimestampChecked ==
    (input.fn = "signRequestRaw" /\ GivenTimestamp(input.args) # <<>>
       /\ ~IsTimestamp(GivenTimestamp(input.args))) =>
        output.err # ""

====
